---- MODULE Spec2Model ----
(***************************************************************************)
(* A model of the 2048 game engine (js/game_manager.js): the grid, the     *)
(* move algorithm, win/loss detection, persistence and the events the      *)
(* engine emits on its event bus.                                          *)
(*                                                                         *)
(* Grid, Tile and the storage manager are collaborators whose code is not  *)
(* among the sources; they are modelled from the specification (sections   *)
(* 3 and 6) and from the way game_manager.js calls them.                   *)
(***************************************************************************)
EXTENDS Integers, Sequences, FiniteSets, TLC

VARIABLES
  grid,         \* this.grid.cells: cells[x][y] is a Tile or Null (indices from 1)
  score,        \* this.score
  over,         \* this.over
  won,          \* this.won
  keepPlaying,  \* this.keepPlaying
  gameState,    \* the persisted snapshot (storageManager), or Null
  bestScore,    \* the persisted best score (storageManager)
  events,       \* the events emitted on the bus by the last operation, in order
  pendingWon,   \* debugWin's setTimeout callbacks that have not run yet
  lastOp,       \* the last operation the engine handled, and what it did
  ops,          \* how many operations were handled so far
  busEvents,    \* EventBus this.events: the handlers of each event, in order
  unsubFns,     \* the unsubscribe functions on() has returned so far
  onceSerial,   \* how many wrappedCallbacks once() has created so far
  calls,        \* the handler invocations of the last emit(), in order
  lastBusOp,    \* the last operation of the bus, and what it found
  busOps,       \* how many operations the bus handled so far
  fx,           \* the fields of the VisualEffectsManager
  timers,       \* the setTimeout / setInterval callbacks that have not run yet
  lastFxOp,     \* the last call the VisualEffectsManager handled, and their number
  oxygen,       \* the fields of the OxygenSystem and what it displays
  sound         \* the fields of the SoundManager and the host's audio support

gameVars == <<grid, score, over, won, keepPlaying, gameState, bestScore,
              events, pendingWon, lastOp, ops>>

busVars == <<busEvents, unsubFns, onceSerial, calls, lastBusOp, busOps>>

fxVars == <<fx, timers, lastFxOp>>

uiVars == <<fxVars, oxygen, sound>>

vars == <<gameVars, busVars, uiVars>>

(***************************************************************************)
(* Bounds and program constants                                            *)
(***************************************************************************)
\* new GameManager(4, ...): the size of the grid
Size == 4
\* this.startTiles
startTiles == 2
\* the number of operations (inputs) of one run
MaxOps == 2
\* Math.random() is sampled at k / RandSteps, k in 0 .. RandSteps-1, when a
\* random available cell is chosen
RandSteps == 2
\* the number of operations of the event bus in one run
MaxBusOps == 4
\* the number of events of the engine the visual effects handle in one run
MaxFxOps == 1
\* the number of restarts the visual effects see in one run
MaxRestarts == 1
\* the number of frames and of interval callbacks in one run
MaxFrames == 1

Null == [null |-> TRUE]

Coords == 0 .. (Size - 1)
Pos(x, y) == [x |-> x, y |-> y]
Directions == 0 .. 3
RandomSamples == 0 .. (RandSteps - 1)

(***************************************************************************)
(* Tile (modelled from the specification, section 3)                       *)
(***************************************************************************)
\* new Tile(position, value): mergedFrom starts null (the empty tuple here)
Tile(position, value) ==
  [x |-> position.x, y |-> position.y, value |-> value, mergedFrom |-> <<>>]

\* tile.updatePosition(position)
updatePosition(tile, position) ==
  [tile EXCEPT !.x = position.x, !.y = position.y]

\* tile.serialize()
tileSerialize(tile) ==
  [position |-> Pos(tile.x, tile.y), value |-> tile.value]

(***************************************************************************)
(* Grid (modelled from the specification, section 3)                       *)
(***************************************************************************)
\* the order of grid.eachCell: x outer, y inner
CellOrder ==
  [i \in 1 .. (Size * Size) |-> Pos((i - 1) \div Size, (i - 1) % Size)]

\* a Size x Size array of arrays, cells[x][y] = F(x, y) (indices from 1)
Matrix(F(_, _)) ==
  SubSeq([x \in 1 .. Size |->
            SubSeq([y \in 1 .. Size |-> F(x, y)], 1, Size)], 1, Size)

\* new Grid(size): every cell empty
emptyGrid == Matrix(LAMBDA x, y : Null)

\* this.cells[cell.x][cell.y]
at(cells, cell) == cells[cell.x + 1][cell.y + 1]

withinBounds(position) ==
  /\ position.x >= 0 /\ position.x < Size
  /\ position.y >= 0 /\ position.y < Size

cellContent(cells, cell) ==
  IF withinBounds(cell) THEN at(cells, cell) ELSE Null

cellOccupied(cells, cell) == cellContent(cells, cell) # Null

cellAvailable(cells, cell) == ~cellOccupied(cells, cell)

insertTile(cells, tile) ==
  [cells EXCEPT ![tile.x + 1][tile.y + 1] = tile]

removeTile(cells, tile) ==
  [cells EXCEPT ![tile.x + 1][tile.y + 1] = Null]

\* the empty cells, in eachCell's order
availableCells(cells) ==
  SelectSeq(CellOrder, LAMBDA cell : at(cells, cell) = Null)

cellsAvailable(cells) == Len(availableCells(cells)) > 0

\* cells[Math.floor(Math.random() * cells.length)], Math.random() = r / RandSteps
randomAvailableCell(cells, r) ==
  LET avail == availableCells(cells)
  IN  avail[((r * Len(avail)) \div RandSteps) + 1]

\* grid.serialize(): size and, per cell, the tile's serialization or null
gridSerialize(cells) ==
  [size  |-> Size,
   cells |-> Matrix(LAMBDA x, y :
                IF cells[x][y] = Null THEN Null ELSE tileSerialize(cells[x][y]))]

\* new Grid(size, previousState): a new Tile per serialized tile, stored at the
\* cell's own index
gridFromState(state) ==
  Matrix(LAMBDA x, y :
     IF state.cells[x][y] = Null THEN Null
     ELSE Tile(state.cells[x][y].position, state.cells[x][y].value))

(***************************************************************************)
(* Events                                                                  *)
(***************************************************************************)
Event(name, data) == [name |-> name, data |-> data]
NoData == [none |-> TRUE]


\* eventBus.emit(name, data) as the engine sees it: the event is published.
\* w is the engine's world: its fields, the storage and the events published
\* by the operation in progress.
emit(w, name, data) ==
  [w EXCEPT !.events = Append(@, Event(name, data))]

(***************************************************************************)
(* VisualEffectsManager (unnamed/part_003).  Of its fields the model keeps *)
(* the number of particles, progressFactor, energy, flashIntensity,        *)
(* gameOverShake and baseColor; what only the drawing reads (positions,    *)
(* hues, radar rings, static, breathing) is left out.  Fractions are       *)
(* fixed-point numbers: progressFactor in units of 10^-9, energy and       *)
(* flashIntensity in units of 10^-3.                                       *)
(***************************************************************************)
maxParticles == 300
baseParticles == 150
\* difficultyConfig.earlyGameCap and midGameCap, in units of 10^-9
earlyGameCap == 150 * 1000 * 1000
midGameCap == 400 * 1000 * 1000
\* the sum setGameProgress caps tileSum at
sumCap == 4000
One == 1000 * 1000 * 1000

colorPhases ==
  [space        |-> [r |-> 5,   g |-> 15, b |-> 35],
   thermosphere |-> [r |-> 25,  g |-> 35, b |-> 65],
   mesosphere   |-> [r |-> 45,  g |-> 45, b |-> 75],
   stratosphere |-> [r |-> 85,  g |-> 50, b |-> 45],
   ionization   |-> [r |-> 145, g |-> 65, b |-> 25],
   reentry      |-> [r |-> 180, g |-> 45, b |-> 15]]

Min(a, b) == IF a < b THEN a ELSE b
Max(a, b) == IF a > b THEN a ELSE b

\* Math.floor(Math.sqrt(n)), found by bisection between lo and hi
RECURSIVE sqrtBetween(_, _, _)
sqrtBetween(n, lo, hi) ==
  IF lo >= hi THEN lo
  ELSE LET mid == (lo + hi + 1) \div 2
       IN  IF mid * mid <= n THEN sqrtBetween(n, mid, hi)
           ELSE sqrtBetween(n, lo, mid - 1)

floorSqrt(n) == sqrtBetween(n, 0, 46340)

\* Math.floor(a * b / c), computed without a product above 2^31
mulDiv(a, b, c) == ((a \div c) * b) + (((a % c) * b) \div c)

\* Math.pow(sumCapped / 4000, 2.5) in units of 10^-9:
\* (s/4000)^2.5 = s * s * sqrt(s) / (16 * 10^6 * 63.2456), and with
\* root = 1000 * sqrt(s) this is s * (s * root) / (1011.93 * 10^9); 1012 is
\* written for 1011.93
\* 1000 * Math.sqrt(sumCapped), for every sumCapped Math.min(..., 4000) allows
rootValues ==
  [sumCapped \in 0 .. sumCap |-> 2 * floorSqrt(sumCapped * 250000)]

pow25(sumCapped) ==
  mulDiv(sumCapped * rootValues[sumCapped], sumCapped, 1012)

\* Math.log(value) / Math.log(2) for a power of two
RECURSIVE log2(_)
log2(value) == IF value <= 1 THEN 0 ELSE 1 + log2(value \div 2)

\* Math.floor(from + (to - from) * t) with t = num / den
lerp(from, to, num, den) == ((from * den) + ((to - from) * num)) \div den

lerpColor(from, to, num, den) ==
  [r |-> lerp(from.r, to.r, num, den),
   g |-> lerp(from.g, to.g, num, den),
   b |-> lerp(from.b, to.b, num, den)]

\* a variant of progressOf that adds the boost of the highest tile without
\* the limit of 1.0
progressOfUnclamped(maxTileValue, tileSum) ==
  LET sumCapped == Min(IF tileSum = 0 THEN 4 ELSE tileSum, sumCap)
      progress  == pow25(sumCapped)
      tileBoost == (log2(maxTileValue) - 8) * 80 * 1000 * 1000
  IN  IF maxTileValue >= 512 THEN progress + tileBoost ELSE progress

\* the progressFactor setGameProgress(maxTileValue, tileSum) computes
progressOf(maxTileValue, tileSum) ==
  LET sumCapped == Min(IF tileSum = 0 THEN 4 ELSE tileSum, sumCap)
      progress  == pow25(sumCapped)
      target    == earlyGameCap
                     + (((midGameCap - earlyGameCap) \div 800) * (sumCapped - 200))
      phased    == IF sumCapped < 200 THEN Min(progress, earlyGameCap)
                   ELSE IF sumCapped < 1000 THEN Min(progress, target)
                   ELSE progress
      tileBoost == (log2(maxTileValue) - 8) * 80 * 1000 * 1000
  IN  IF maxTileValue >= 512 THEN Min(One, phased + tileBoost) ELSE phased

\* the baseColor setGameProgress derives from progressFactor p (p in units
\* of 10^-6 for the interpolation)
colorOf(p) ==
  LET u == p \div 1000
  IN  IF u < 100000
      THEN lerpColor(colorPhases.space, colorPhases.thermosphere, u, 100000)
      ELSE IF u < 250000
      THEN lerpColor(colorPhases.thermosphere, colorPhases.mesosphere,
                     u - 100000, 150000)
      ELSE IF u < 500000
      THEN lerpColor(colorPhases.mesosphere, colorPhases.stratosphere,
                     u - 250000, 250000)
      ELSE IF u < 750000
      THEN lerpColor(colorPhases.stratosphere, colorPhases.ionization,
                     u - 500000, 250000)
      ELSE lerpColor(colorPhases.ionization, colorPhases.reentry,
                     u - 750000, 250000)

setGameProgress(f, maxTileValue, tileSum) ==
  LET progressFactor == progressOf(maxTileValue, tileSum)
  IN  [f EXCEPT !.progressFactor = progressFactor,
                !.baseColor = colorOf(progressFactor)]

\* progressFactor in units of 10^-3
milli(f) == f.progressFactor \div (1000 * 1000)

\* for (i = 0; i < n; i++) particles.push(...): nothing is pushed when n <= 0
push(f, n) == [f EXCEPT !.particles = @ + Max(0, n)]

\* the flash and the energy of a move; the force on the particles is only drawn
triggerMove(f, direction) ==
  LET flash     == 20 + ((120 * milli(f)) \div 1000)
      energyAdd == 50 + ((250 * milli(f)) \div 1000)
      maxEnergy == 800 + ((2200 * milli(f)) \div 1000)
  IN  [f EXCEPT !.flashIntensity = Max(@, flash),
                !.energy = Min(@ + energyAdd, maxEnergy)]

\* the ring of a milestone: at most 20 particles, and at most the free slots
triggerMilestone(f, value) ==
  LET numParticles   == Min(20, 10 + (value \div 64))
      availableSlots == maxParticles - f.particles
  IN  push(f, Min(numParticles, availableSlots))

\* the mist of triggerVictory's last setTimeout: 30 particles
victoryMist(f) == push(f, 30)

\* one wave of triggerVictory (50 particles) or of triggerGameOver (80)
wave(f, particlesPerWave) ==
  LET availableSlots == maxParticles - f.particles
  IN  push(f, Min(particlesPerWave, availableSlots))

\* one call of triggerVictory's setInterval callback: currentStep is the
\* step it reaches; it writes the three channels of the baseColor in place
transitionStep(f, currentStep) ==
  [f EXCEPT !.baseColor = [r |-> 20 + ((135 * currentStep) \div 60),
                           g |-> 100 + ((105 * currentStep) \div 60),
                           b |-> 180 + ((35 * currentStep) \div 60)]]

\* triggerVictory() but for its timers, which the action schedules
triggerVictory(f) ==
  [f EXCEPT !.flashIntensity = 800,
            !.energy = 300,
            !.baseColor = [r |-> 20, g |-> 100, b |-> 180],
            !.gameOverShake = FALSE]

\* triggerGameOver() but for its timers, which the action schedules
triggerGameOver(f) ==
  [f EXCEPT !.flashIntensity = 3000,
            !.energy = 5000,
            !.baseColor = [r |-> 255, g |-> 80, b |-> 0],
            !.gameOverShake = TRUE]

\* the burst of a merge; numExplosionParticles may end in .5, so it is
\* counted in halves, and the loop pushes while i is below it
triggerMerge(f, value) ==
  LET valCapped      == Min(value, 2048)
      normalizedVal  == Max((log2(valCapped) * 1000) \div 11, 100)
      baseFlash      == 100 + ((normalizedVal * 200) \div 1000)
      progressBonus  == (milli(f) * 300) \div 1000
      flashAdd       == (baseFlash * (1000 + progressBonus)) \div 1000
      baseEnergyAdd  == 150 + ((normalizedVal * 250) \div 1000)
      energyAdd      == (baseEnergyAdd * (1000 + ((milli(f) * 700) \div 1000)))
                          \div 1000
      maxEnergy      == 800 + ((2200 * milli(f)) \div 1000)
      scaled         == (12 * normalizedVal * (500 + (milli(f) \div 2)))
                          \div (1000 * 1000)
      halves         == IF value >= 512 /\ milli(f) > 600
                        THEN 3 * (8 + scaled) ELSE 2 * (8 + scaled)
      toAddHalves    == Min(halves, 2 * (maxParticles - f.particles))
      g == [f EXCEPT !.flashIntensity =
                       Min(@ + flashAdd, 800 + ((milli(f) * 600) \div 1000)),
                     !.energy = Min(@ + energyAdd, maxEnergy)]
  IN  push(g, (toAddHalves + 1) \div 2)

\* a variant of loop that destroys expired particles below the baseline too
loopNoFloor(f, expired) ==
  [f EXCEPT !.flashIntensity = (@ * 9) \div 10,
            !.energy = Max(0, @ - 2),
            !.particles = @ - Min(expired, @)]

\* a variant of loop that leaves the energy as it was
loopKeepsEnergy(f, expired) ==
  [f EXCEPT !.flashIntensity = (@ * 9) \div 10,
            !.particles = @ - Min(expired, Max(0, @ - baseParticles))]

\* one frame: the flash and the energy decay, and of the particles whose
\* life has passed their maxLife (expired of them) one is removed for as long
\* as there are more than baseParticles
loop(f, expired) ==
  [f EXCEPT !.flashIntensity = (@ * 9) \div 10,
            !.energy = Max(0, @ - 2),
            !.particles = @ - Min(expired, Max(0, @ - baseParticles))]

resetEffects(f) ==
  [f EXCEPT !.energy = 0,
            !.progressFactor = 0,
            !.flashIntensity = 0,
            !.gameOverShake = FALSE,
            !.baseColor = [r |-> 5, g |-> 15, b |-> 35],
            !.particles = baseParticles]

\* new VisualEffectsManager(eventBus)
NewVisualEffects ==
  [particles |-> baseParticles, progressFactor |-> 0, energy |-> 0,
   flashIntensity |-> 0, gameOverShake |-> FALSE,
   baseColor |-> [r |-> 5, g |-> 15, b |-> 35]]

(***************************************************************************)
(* OxygenSystem (js/oxygen_system.js)                                      *)
(***************************************************************************)
\* updateDisplay(hours, level): what the indicator shows; it stores the level
updateDisplay(o, hours, level) ==
  [o EXCEPT !.shownHours = hours, !.shownLevel = level, !.currentLevel = level]

\* a variant of hoursAndLevel whose phases end one sum later
hoursAndLevelInclusive(tileSum) ==
  LET r == IF tileSum <= 200
           THEN [hours |-> 48 - (tileSum \div 20), level |-> 3]
           ELSE IF tileSum <= 1000
           THEN [hours |-> 38 - ((tileSum - 200) \div 60), level |-> 2]
           ELSE IF tileSum <= 2500
           THEN [hours |-> 25 - ((tileSum - 1000) \div 120), level |-> 1]
           ELSE [hours |-> Max(1, 12 - ((tileSum - 2500) \div 300)), level |-> 0]
  IN  [r EXCEPT !.hours = Max(1, @)]

\* the hours and the level updateFromSum computes
hoursAndLevel(tileSum) ==
  LET r == IF tileSum < 200
           THEN [hours |-> 48 - (tileSum \div 20), level |-> 3]
           ELSE IF tileSum < 1000
           THEN [hours |-> 38 - ((tileSum - 200) \div 60), level |-> 2]
           ELSE IF tileSum < 2500
           THEN [hours |-> 25 - ((tileSum - 1000) \div 120), level |-> 1]
           ELSE [hours |-> Max(1, 12 - ((tileSum - 2500) \div 300)), level |-> 0]
  IN  [r EXCEPT !.hours = Max(1, @)]

\* updateFromSum(tileSum); alert is the level playAlertSound was called
\* with, or -1
updateFromSum(o, tileSum) ==
  LET c  == hoursAndLevel(tileSum)
      o1 == IF c.hours # o.lastHours
            THEN [updateDisplay(o, c.hours, c.level) EXCEPT !.lastHours = c.hours]
            ELSE o
  IN  [o1 EXCEPT !.alert = IF c.level < o1.currentLevel THEN c.level ELSE -1,
                 !.currentLevel = c.level]

\* the subscription of the constructor: updateFromSum(data.sum) for every
\* game:progression among the events published, in their order
RECURSIVE onProgression(_, _, _)
onProgression(o, evts, i) ==
  IF i > Len(evts) THEN o
  ELSE IF evts[i].name = "game:progression"
  THEN onProgression(updateFromSum(o, evts[i].data.sum), evts, i + 1)
  ELSE onProgression(o, evts, i + 1)

\* what restart() does to the oxygen system
restartOxygen(o) ==
  [updateDisplay([o EXCEPT !.lastHours = 48], 48, 3) EXCEPT !.alert = -1]

\* new OxygenSystem(); op and tileSum record the last call
NewOxygenSystem ==
  [currentLevel |-> 3, lastHours |-> 48, shownHours |-> 48, shownLevel |-> 3,
   alert |-> -1, op |-> "new", tileSum |-> 0]

(***************************************************************************)
(* SoundManager (unnamed/part_003)                                         *)
(***************************************************************************)
\* what the host offers: no AudioContext at all, a constructor that throws,
\* nodes that cannot be connected to the destination, or working audio
AudioSupport == {"unsupported", "throws", "disconnected", "supported"}

\* the event handlers of the SoundManager
SoundHandlers ==
  {"playMove", "playMerge", "setDroneEnergy", "playCatastrophicFailure",
   "playVictory", "playOxygenAlert", "playRadioChatter"}

\* cleanup(): the drone is stopped, the context closed and forgotten
cleanup(m) == [m EXCEPT !.initialized = FALSE, !.audioCtx = FALSE]

\* a variant of init that counts an unsupported host as initialised
initAssumesSupport(m) ==
  IF m.initialized THEN m
  ELSE IF m.support = "throws" THEN m
  ELSE IF m.support = "disconnected"
  THEN cleanup([m EXCEPT !.audioCtx = TRUE])
  ELSE [m EXCEPT !.audioCtx = TRUE, !.drone = TRUE, !.initialized = TRUE,
                 !.contexts = @ + 1]

\* init(); contexts counts the AudioContexts that were put to use
init(m) ==
  IF m.initialized THEN m
  ELSE IF m.support = "unsupported" THEN m
  ELSE IF m.support = "throws" THEN m
  ELSE IF m.support = "disconnected"
  THEN cleanup([m EXCEPT !.audioCtx = TRUE])
  ELSE [m EXCEPT !.audioCtx = TRUE, !.drone = TRUE, !.initialized = TRUE,
                 !.contexts = @ + 1]

\* a handler: its guard, then its body in try / catch; played tells whether
\* its body ran, raised whether an error left it
play(m, handler) ==
  LET ready == IF handler = "setDroneEnergy"
               THEN m.initialized /\ m.audioCtx /\ m.drone
               ELSE m.initialized /\ m.audioCtx
  IN  [m EXCEPT !.played = ready, !.raised = FALSE]

\* new SoundManager(eventBus) on a host with the given support; op, count
\* and moves record the last call, the number of calls and of move inputs
NewSoundManager(support) ==
  [initialized |-> FALSE, audioCtx |-> FALSE, drone |-> FALSE,
   support |-> support, contexts |-> 0, played |-> FALSE, raised |-> FALSE,
   op |-> "new", count |-> 0, moves |-> 0]

\* what the engine does not touch through actuate(): the timers and the
\* record of the visual effects, the oxygen system, the sound manager
subscriberVars == <<timers, lastFxOp, oxygen, sound>>

NewListeners ==
  /\ timers = {}
  /\ lastFxOp = [op |-> "new", count |-> 0, restarts |-> 0, frames |-> 0,
                 before |-> NewVisualEffects, stale |-> FALSE, args |-> <<>>]
  /\ sound = NewSoundManager("supported")

NewSubscribers ==
  /\ NewListeners
  /\ oxygen = NewOxygenSystem

\* the three are constructed with the engine
NewUi ==
  /\ fx = NewVisualEffects
  /\ NewSubscribers

(***************************************************************************)
(* GameManager                                                             *)
(***************************************************************************)
\* a variant of isGameTerminated that forgets a game that is won
isGameTerminatedOverOnly(w) == w.over

isGameTerminated(w) == w.over \/ (w.won /\ ~w.keepPlaying)

\* a variant of keepPlayingHandler that leaves keepPlaying as it was
keepPlayingHandlerIgnored(w) == w

keepPlayingHandler(w) == [w EXCEPT !.keepPlaying = TRUE]

\* Math.random() < 0.9 ? 2 : 4, lt being the outcome of the comparison
randomValue(lt) == IF lt THEN 2 ELSE 4

\* a variant of addRandomTile that does not ask whether the cell is available
addRandomTileAnyCell(cells, r, lt) ==
  insertTile(cells,
             Tile(CellOrder[((r * Len(CellOrder)) \div RandSteps) + 1],
                  randomValue(lt)))

\* r samples the Math.random() of randomAvailableCell
addRandomTile(cells, r, lt) ==
  IF cellsAvailable(cells)
  THEN insertTile(cells, Tile(randomAvailableCell(cells, r), randomValue(lt)))
  ELSE cells

\* draws: one <<r, lt>> per start tile
RECURSIVE addStartTiles(_, _, _)
addStartTiles(cells, draws, i) ==
  IF i > startTiles THEN cells
  ELSE addStartTiles(addRandomTile(cells, draws[i][1], draws[i][2]), draws, i + 1)

\* eachCell(...) with if (tile): the tiles of the occupied cells, in
\* eachCell's order, one after the other
RECURSIVE tileSumFrom(_, _, _, _)
tileSumFrom(cells, occupied, i, acc) ==
  IF i > Len(occupied) THEN acc
  ELSE LET tile == at(cells, occupied[i])
       IN  tileSumFrom(cells, occupied, i + 1,
             [sum     |-> acc.sum + tile.value,
              maxTile |-> IF tile.value > acc.maxTile
                          THEN tile.value ELSE acc.maxTile])

getTileSum(cells) ==
  tileSumFrom(cells, SelectSeq(CellOrder, LAMBDA cell : at(cells, cell) # Null),
              1, [sum |-> 0, maxTile |-> 0])

serialize(w) ==
  [grid        |-> gridSerialize(w.grid),
   score       |-> w.score,
   over        |-> w.over,
   won         |-> w.won,
   keepPlaying |-> w.keepPlaying]

\* a variant of actuate that clears the snapshot of a game that is won too
actuateClearWhenTerminated(w) ==
  LET best       == IF w.bestScore < w.score THEN w.score ELSE w.bestScore
      state      == IF w.over \/ (w.won /\ ~w.keepPlaying)
                    THEN Null ELSE serialize(w)
      boardState == getTileSum(w.grid)
  IN  emit([w EXCEPT !.bestScore = best, !.gameState = state,
                     !.fx = setGameProgress(@, boardState.maxTile,
                                            boardState.sum)],
           "game:progression",
           [sum |-> boardState.sum, maxTile |-> boardState.maxTile,
            score |-> w.score])

\* a variant of actuate that stores the score as the best score, whatever the
\* best score was
actuateBestIsScore(w) ==
  LET state      == IF w.over THEN Null ELSE serialize(w)
      boardState == getTileSum(w.grid)
  IN  emit([w EXCEPT !.bestScore = w.score, !.gameState = state,
                     !.fx = setGameProgress(@, boardState.maxTile,
                                            boardState.sum)],
           "game:progression",
           [sum |-> boardState.sum, maxTile |-> boardState.maxTile,
            score |-> w.score])

\* a variant of actuate that leaves the visual effects as they were
actuateStaleProgress(w) ==
  LET best       == IF w.bestScore < w.score THEN w.score ELSE w.bestScore
      state      == IF w.over THEN Null ELSE serialize(w)
      boardState == getTileSum(w.grid)
  IN  emit([w EXCEPT !.bestScore = best, !.gameState = state],
           "game:progression",
           [sum |-> boardState.sum, maxTile |-> boardState.maxTile,
            score |-> w.score])

\* a variant of actuate that saves the snapshot of a game that is over too
actuateAlwaysSave(w) ==
  LET best       == IF w.bestScore < w.score THEN w.score ELSE w.bestScore
      boardState == getTileSum(w.grid)
  IN  emit([w EXCEPT !.bestScore = best, !.gameState = serialize(w),
                     !.fx = setGameProgress(@, boardState.maxTile,
                                            boardState.sum)],
           "game:progression",
           [sum |-> boardState.sum, maxTile |-> boardState.maxTile,
            score |-> w.score])

\* the best score, the snapshot (cleared when over) and game:progression
actuate(w) ==
  LET best       == IF w.bestScore < w.score THEN w.score ELSE w.bestScore
      state      == IF w.over THEN Null ELSE serialize(w)
      boardState == getTileSum(w.grid)
  IN  emit([w EXCEPT !.bestScore = best, !.gameState = state,
                     !.fx = setGameProgress(@, boardState.maxTile,
                                            boardState.sum)],
           "game:progression",
           [sum |-> boardState.sum, maxTile |-> boardState.maxTile,
            score |-> w.score])

\* the grids new Grid(size) and addStartTiles() can leave, one per outcome of
\* the random draws
startGrids ==
  {addStartTiles(emptyGrid, draws, 1) :
     draws \in [1 .. startTiles -> RandomSamples \X BOOLEAN]}

\* a variant of setup that adds the start tiles to a restored game too
setupAddsStartTiles(w) ==
  LET previousState == w.gameState
      restored == IF previousState # Null
                  THEN [w EXCEPT !.grid        = gridFromState(previousState.grid),
                                 !.score       = previousState.score,
                                 !.over        = previousState.over,
                                 !.won         = previousState.won,
                                 !.keepPlaying = previousState.keepPlaying]
                  ELSE [w EXCEPT !.grid        = emptyGrid,
                                 !.score       = 0,
                                 !.over        = FALSE,
                                 !.won         = FALSE,
                                 !.keepPlaying = FALSE]
  IN  {actuate([restored EXCEPT !.grid = addStartTiles(@, draws, 1)]) :
         draws \in [1 .. startTiles -> RandomSamples \X BOOLEAN]}

\* the worlds setup() can leave, one per outcome of the random draws
setup(w) ==
  LET previousState == w.gameState
  IN  IF previousState # Null
      THEN {actuate([w EXCEPT !.grid        = gridFromState(previousState.grid),
                              !.score       = previousState.score,
                              !.over        = previousState.over,
                              !.won         = previousState.won,
                              !.keepPlaying = previousState.keepPlaying])}
      ELSE {actuate([w EXCEPT !.grid        = cells,
                              !.score       = 0,
                              !.over        = FALSE,
                              !.won         = FALSE,
                              !.keepPlaying = FALSE]) : cells \in startGrids}

\* a variant of restart that leaves the snapshot in the storage
restartKeepsSnapshot(w) == setup([w EXCEPT !.fx = resetEffects(@)])

\* restart(), but for the oxygen system, which the action resets
restart(w) == setup([w EXCEPT !.gameState = Null, !.fx = resetEffects(@)])

\* a variant of prepareTiles that leaves the merger information
prepareTilesKeepsMerged(cells) == cells

prepareTiles(cells) ==
  Matrix(LAMBDA x, y :
     IF cells[x][y] = Null THEN Null
     ELSE [cells[x][y] EXCEPT !.mergedFrom = <<>>])

\* a variant of moveTile that leaves the tile's recorded position as it was
moveTileStalePosition(cells, tile, cell) ==
  [cells EXCEPT ![tile.x + 1][tile.y + 1] = Null,
                ![cell.x + 1][cell.y + 1] = tile]

moveTile(cells, tile, cell) ==
  [cells EXCEPT ![tile.x + 1][tile.y + 1] = Null,
                ![cell.x + 1][cell.y + 1] = updatePosition(tile, cell)]

getVector(direction) ==
  CASE direction = 0 -> [x |-> 0,  y |-> -1]
    [] direction = 1 -> [x |-> 1,  y |-> 0]
    [] direction = 2 -> [x |-> 0,  y |-> 1]
    [] direction = 3 -> [x |-> -1, y |-> 0]

Ascending == [i \in 1 .. Size |-> i - 1]
Descending == [i \in 1 .. Size |-> Size - i]

\* a variant of buildTraversals that never reverses
buildTraversalsAscending(vector) == [x |-> Ascending, y |-> Ascending]

buildTraversals(vector) ==
  [x |-> IF vector.x = 1 THEN Descending ELSE Ascending,
   y |-> IF vector.y = 1 THEN Descending ELSE Ascending]

RECURSIVE findFarthestPosition(_, _, _)
findFarthestPosition(cells, cell, vector) ==
  LET previous == cell
      nextCell == Pos(previous.x + vector.x, previous.y + vector.y)
  IN  IF withinBounds(nextCell) /\ cellAvailable(cells, nextCell)
      THEN findFarthestPosition(cells, nextCell, vector)
      ELSE [farthest |-> previous, next |-> nextCell]

\* a variant of positionsEqual that compares x with y
positionsEqualSwapped(first, second) ==
  first.x = second.y /\ first.y = second.x

positionsEqual(first, second) ==
  first.x = second.x /\ first.y = second.y

tileMatchesAvailable(cells) ==
  \E x \in Coords, y \in Coords :
    LET tile == cellContent(cells, Pos(x, y))
    IN  /\ tile # Null
        /\ \E direction \in Directions :
             LET vector == getVector(direction)
                 other  == cellContent(cells, Pos(x + vector.x, y + vector.y))
             IN  other # Null /\ other.value = tile.value

\* a variant of movesAvailable that only looks for an empty cell
movesAvailableCellsOnly(cells) == cellsAvailable(cells)

movesAvailable(cells) == cellsAvailable(cells) \/ tileMatchesAvailable(cells)


\* a variant of canMerge without the check of next.mergedFrom
canMergeAgain(tile, next) ==
  next # Null /\ next.value = tile.value

\* the merge condition of move(): an equal neighbour that has not merged yet
canMerge(tile, next) ==
  next # Null /\ next.value = tile.value /\ next.mergedFrom = <<>>

\* a variant of mergedTile whose value is the value of one source
mergedTileOfOneSource(tile, next, position) ==
  [Tile(position, tile.value) EXCEPT
     !.mergedFrom = <<updatePosition(tile, position), next>>]

\* new Tile(positions.next, tile.value * 2) with mergedFrom = [tile, next];
\* tile is converged to positions.next afterwards, and mergedFrom refers to it
mergedTile(tile, next, position) ==
  [Tile(position, tile.value * 2) EXCEPT
     !.mergedFrom = <<updatePosition(tile, position), next>>]

\* a variant of addScore that adds the value of a source tile
addScoreOfSource(sc, merged) == sc + merged.mergedFrom[1].value

\* self.score += merged.value
addScore(sc, merged) == sc + merged.value

\* a variant of trackMaxMerge that keeps the value of the last merge
trackLastMerge(maxMergeValue, merged) == merged.value

\* if (merged.value > maxMergeValue) maxMergeValue = merged.value
trackMaxMerge(maxMergeValue, merged) ==
  IF merged.value > maxMergeValue THEN merged.value ELSE maxMergeValue

\* a variant of mergeEvents whose milestones start above 64
mergeEventsAbove64(w, merged) ==
  LET w1 == IF merged.value > 64
            THEN emit(w, "game:milestone", [value |-> merged.value])
            ELSE w
  IN  IF merged.value = 2048
      THEN emit([w1 EXCEPT !.won = TRUE], "game:won", NoData)
      ELSE w1

\* the events move() emits for one merge, while it traverses the grid
mergeEvents(w, merged) ==
  LET w1 == IF merged.value >= 64
            THEN emit(w, "game:milestone", [value |-> merged.value])
            ELSE w
  IN  IF merged.value = 2048
      THEN emit([w1 EXCEPT !.won = TRUE], "game:won", NoData)
      ELSE w1

\* the body of move()'s traversal for one cell; m holds the world and move()'s
\* locals moved and maxMergeValue
moveCell(m, cell, vector) ==
  LET tile == cellContent(m.w.grid, cell)
  IN  IF tile = Null THEN m
      ELSE
        LET positions == findFarthestPosition(m.w.grid, cell, vector)
            next      == cellContent(m.w.grid, positions.next)
        IN  IF canMerge(tile, next)
            THEN
              LET merged == mergedTile(tile, next, positions.next)
                  cells1 == removeTile(insertTile(m.w.grid, merged), tile)
                  w1     == [m.w EXCEPT !.grid  = cells1,
                                        !.score = addScore(@, merged)]
              IN  [w             |-> mergeEvents(w1, merged),
                   maxMergeValue |-> trackMaxMerge(m.maxMergeValue, merged),
                   moved         |-> m.moved \/
                                     ~positionsEqual(cell,
                                        updatePosition(tile, positions.next))]
            ELSE
              [m EXCEPT
                 !.w.grid = moveTile(@, tile, positions.farthest),
                 !.moved  = @ \/ ~positionsEqual(cell,
                                    updatePosition(tile, positions.farthest))]

\* traversals.x.forEach(x => traversals.y.forEach(y => ...))
RECURSIVE traverse(_, _, _, _, _)
traverse(m, traversals, i, j, vector) ==
  IF i > Size THEN m
  ELSE IF j > Size THEN traverse(m, traversals, i + 1, 1, vector)
  ELSE traverse(moveCell(m, Pos(traversals.x[i], traversals.y[j]), vector),
                traversals, i, j + 1, vector)

\* a variant of afterMoved that publishes game:move and game:merge before the
\* loss check
afterMovedMoveFirst(m, direction, r, lt) ==
  LET w1 == [m.w EXCEPT !.grid = addRandomTile(@, r, lt)]
      w2 == emit(w1, "game:move", [direction |-> direction])
      w3 == IF m.maxMergeValue > 0
            THEN emit(w2, "game:merge", [value |-> m.maxMergeValue])
            ELSE w2
      w4 == IF ~movesAvailable(w3.grid)
            THEN emit([w3 EXCEPT !.over = TRUE], "game:over", NoData)
            ELSE w3
  IN  actuate(w4)

\* what move() does once a tile has moved: the new tile, the loss check and
\* the events, then actuate()
afterMoved(m, direction, r, lt) ==
  LET w1 == [m.w EXCEPT !.grid = addRandomTile(@, r, lt)]
      w2 == IF ~movesAvailable(w1.grid)
            THEN emit([w1 EXCEPT !.over = TRUE], "game:over", NoData)
            ELSE w1
      w3 == emit(w2, "game:move", [direction |-> direction])
      w4 == IF m.maxMergeValue > 0
            THEN emit(w3, "game:merge", [value |-> m.maxMergeValue])
            ELSE w3
  IN  actuate(w4)

\* move(direction) up to the end of its traversal: the world and the locals
\* moved and maxMergeValue
moveTraversal(w, direction) ==
  LET vector     == getVector(direction)
      traversals == buildTraversals(vector)
  IN  traverse([w             |-> [w EXCEPT !.grid = prepareTiles(@)],
                moved         |-> FALSE,
                maxMergeValue |-> 0],
               traversals, 1, 1, vector)

\* a variant of debugWin that leaves the score as it was
debugWinKeepsScore(w) ==
  LET avail      == availableCells(w.grid)
      targetCell == IF Len(avail) > 0 THEN avail[1] ELSE Pos(0, 0)
      cells1     == IF at(w.grid, targetCell) # Null
                    THEN removeTile(w.grid, at(w.grid, targetCell))
                    ELSE w.grid
      w1 == [w EXCEPT !.grid  = insertTile(cells1, Tile(targetCell, 2048)),
                      !.won   = TRUE]
  IN  actuate(emit(w1, "game:merge", [value |-> 2048]))

\* debugWin(), but for its setTimeout, which the action schedules
debugWin(w) ==
  LET avail      == availableCells(w.grid)
      targetCell == IF Len(avail) > 0 THEN avail[1] ELSE Pos(0, 0)
      cells1     == IF at(w.grid, targetCell) # Null
                    THEN removeTile(w.grid, at(w.grid, targetCell))
                    ELSE w.grid
      w1 == [w EXCEPT !.grid  = insertTile(cells1, Tile(targetCell, 2048)),
                      !.won   = TRUE,
                      !.score = @ + 2048]
  IN  actuate(emit(w1, "game:merge", [value |-> 2048]))

\* values[valueIndex % values.length] of debugLose
LoseValues == <<2, 4, 8, 16, 32, 64, 128, 256>>

debugLose(w) ==
  LET cells1 == Matrix(LAMBDA x, y :
                   Tile(Pos(x - 1, y - 1),
                        LoseValues[(((x - 1) * Size + (y - 1)) % Len(LoseValues)) + 1]))
      w1 == [w EXCEPT !.grid = cells1, !.over = TRUE]
  IN  actuate(emit(w1, "game:over", NoData))


(***************************************************************************)
(* The snapshots the storage may hold when the page is loaded.  Each is a  *)
(* board as rows (top row first, 0 for an empty cell) with a score and the *)
(* won / keepPlaying flags; a snapshot is only ever written with over      *)
(* false.                                                                  *)
(***************************************************************************)
StoredState(rows, sc, w, k) ==
  [grid        |-> [size  |-> Size,
                    cells |-> Matrix(LAMBDA x, y :
                                 IF rows[y][x] = 0 THEN Null
                                 ELSE [position |-> Pos(x - 1, y - 1),
                                       value    |-> rows[y][x]])],
   score       |-> sc,
   over        |-> FALSE,
   won         |-> w,
   keepPlaying |-> k]

BoardChain ==
  << <<0, 8, 4, 4>>, <<2, 2, 2, 2>>, <<16, 4, 4, 8>>, <<32, 64, 128, 256>> >>
BoardMilestones ==
  << <<32, 32, 64, 64>>, <<16, 16, 8, 8>>, <<128, 128, 256, 256>>, <<2, 4, 2, 4>> >>
BoardWin ==
  << <<1024, 1024, 1024, 1024>>, <<512, 512, 512, 512>>,
     <<2, 4, 8, 16>>, <<4, 8, 16, 32>> >>
BoardKeep ==
  << <<2048, 1024, 1024, 2>>, <<4, 8, 16, 32>>, <<2, 4, 8, 16>>, <<4, 8, 2, 4>> >>
BoardLast ==
  << <<2, 4, 8, 16>>, <<32, 64, 128, 256>>, <<2, 4, 8, 16>>, <<32, 64, 128, 0>> >>
BoardPair ==
  << <<2, 2, 8, 16>>, <<32, 64, 128, 256>>, <<2, 4, 8, 16>>, <<32, 64, 128, 256>> >>
BoardWinOver ==
  << <<1024, 1024, 8, 16>>, <<32, 64, 128, 256>>,
     <<2, 4, 8, 16>>, <<32, 64, 128, 256>> >>

\* a game that was won and not continued
BoardWon ==
  << <<2048, 512, 0, 0>>, <<4, 8, 0, 0>>,
     <<2, 4, 0, 0>>, <<0, 0, 0, 0>> >>

\* a game whose tiles add up to 998, two short of the sum at which the oxygen
\* is low
BoardBrink ==
  << <<512, 256, 128, 64>>, <<32, 2, 2, 2>>, <<0, 0, 0, 0>>, <<0, 0, 0, 0>> >>

StoredStates ==
  { StoredState(BoardChain, 1800, FALSE, FALSE),
    StoredState(BoardMilestones, 3200, FALSE, FALSE),
    StoredState(BoardWin, 19000, FALSE, FALSE),
    StoredState(BoardKeep, 20400, TRUE, TRUE),
    StoredState(BoardLast, 2700, FALSE, FALSE),
    StoredState(BoardPair, 2900, FALSE, FALSE),
    StoredState(BoardWinOver, 18000, FALSE, FALSE),
    StoredState(BoardWon, 20000, TRUE, FALSE),
    StoredState(BoardBrink, 7000, FALSE, FALSE) }

(***************************************************************************)
(* EventBus (js/event_bus.js)                                              *)
(***************************************************************************)
\* the events clients subscribe to and publish
Topics == {"t1", "t2"}

\* the callbacks clients subscribe: "plain" returns, "thrower" throws, "adder"
\* subscribes "plain" to t1 and "remover" unsubscribes "plain" from t1 while
\* they are called
Callbacks == {"plain", "thrower", "adder", "remover"}

\* the subscriptions clients make with on(), and the ones they make with once()
Subscribable == ({"t1"} \X Callbacks) \cup ({"t2"} \X {"plain"})
OnceSubscribable == {"t1"} \X {"plain", "thrower"}

\* the data clients publish
Payload == "payload"

\* an entry of a handler list: the callback itself (serial 0), or the
\* wrappedCallback number serial that once(event, cb) created
Handler(cb, serial, event) == [cb |-> cb, serial |-> serial, event |-> event]

Callback(cb) == Handler(cb, 0, "")

\* this.events = {}; an event without a list behaves in on, off and emit as
\* an event with an empty list
NewEvents == [t1 |-> <<>>, t2 |-> <<>>]

on(ev, event, handler) == [ev EXCEPT ![event] = Append(@, handler)]

\* Array.prototype.indexOf, counted from 1: 0 if the handler is not there
indexOf(list, handler) ==
  IF \E i \in 1 .. Len(list) : list[i] = handler
  THEN CHOOSE i \in 1 .. Len(list) :
         /\ list[i] = handler
         /\ \A j \in 1 .. (i - 1) : list[j] # handler
  ELSE 0

\* list.splice(index, 1)
splice(list, index) ==
  SubSeq(list, 1, index - 1) \o SubSeq(list, index + 1, Len(list))

off(ev, event, handler) ==
  LET index == indexOf(ev[event], handler)
  IN  IF index > 0 THEN [ev EXCEPT ![event] = splice(@, index)] ELSE ev

clear(ev) == NewEvents

\* what a callback does when it is called: the lists it leaves, and whether
\* it throws
runCallback(ev, cb) ==
  CASE cb = "plain"   -> [events |-> ev, threw |-> FALSE]
    [] cb = "thrower" -> [events |-> ev, threw |-> TRUE]
    [] cb = "adder"   -> [events |-> on(ev, "t1", Callback("plain")),
                          threw |-> FALSE]
    [] cb = "remover" -> [events |-> off(ev, "t1", Callback("plain")),
                          threw |-> FALSE]

\* the wrappedCallback of once(): callback(data), then off(event, wrappedCallback)
\* unless the callback has thrown
wrappedCallback(ev, handler) ==
  LET r == runCallback(ev, handler.cb)
  IN  IF r.threw THEN r
      ELSE [events |-> off(r.events, handler.event, handler), threw |-> FALSE]

callHandler(ev, handler) ==
  IF handler.serial = 0 THEN runCallback(ev, handler.cb)
  ELSE wrappedCallback(ev, handler)

\* a variant of tryCatch that lets the exception of a handler leave emit
rethrow(p, threw) == [p EXCEPT !.aborted = threw]

\* try { callback(data) } catch (e) { console.error(...) }: the pass goes on
tryCatch(p, threw) == p

\* this.events[event].forEach(...): the indexes 1 .. len of the list as it was
\* when the pass began are visited in order, each one in the list as it is at
\* that moment; an index the list no longer has is passed over.
\* p: the lists, the calls made so far (each with the lists before and after
\* it), and whether an exception left the pass
RECURSIVE forEach(_, _, _, _, _)
forEach(p, event, data, k, len) ==
  IF k > len \/ p.aborted THEN p
  ELSE IF k > Len(p.events[event]) THEN forEach(p, event, data, k + 1, len)
  ELSE LET handler == p.events[event][k]
           r == callHandler(p.events, handler)
           q == [events  |-> r.events,
                 calls   |-> Append(p.calls, [handler |-> handler,
                                              data    |-> data,
                                              index   |-> k,
                                              threw   |-> r.threw,
                                              before  |-> p.events,
                                              after   |-> r.events]),
                 aborted |-> FALSE]
       IN  forEach(tryCatch(q, r.threw), event, data, k + 1, len)

\* EventBus.prototype.emit
busEmit(ev, event, data) ==
  forEach([events |-> ev, calls |-> <<>>, aborted |-> FALSE],
          event, data, 1, Len(ev[event]))

(***************************************************************************)
(* The state machine                                                       *)
(***************************************************************************)
\* the engine's world at the start of an operation: nothing published yet
World ==
  [grid |-> grid, score |-> score, over |-> over, won |-> won,
   keepPlaying |-> keepPlaying, gameState |-> gameState,
   bestScore |-> bestScore, events |-> <<>>, fx |-> fx]

Becomes(w) ==
  /\ grid' = w.grid
  /\ score' = w.score
  /\ over' = w.over
  /\ won' = w.won
  /\ keepPlaying' = w.keepPlaying
  /\ gameState' = w.gameState
  /\ bestScore' = w.bestScore
  /\ events' = w.events
  /\ fx' = w.fx

\* the world an operation leaves, and the oxygen system once it has handled
\* the game:progression events of the operation
Heard(w) ==
  /\ Becomes(w)
  /\ oxygen' = onProgression(oxygen, w.events, 1)

\* the sum of the values on a board, cell by cell
ValueAt(cells, x, y) ==
  IF cells[x + 1][y + 1] = Null THEN 0 ELSE cells[x + 1][y + 1].value

ColumnSum(cells, x) ==
  ValueAt(cells, x, 0) + ValueAt(cells, x, 1) + ValueAt(cells, x, 2)
    + ValueAt(cells, x, 3)

BoardSum(cells) ==
  ColumnSum(cells, 0) + ColumnSum(cells, 1) + ColumnSum(cells, 2)
    + ColumnSum(cells, 3)

\* what an operation records of the state it began in: whether the game was
\* terminated, the number of tiles and the sum of their values
Op(name, direction, moved) ==
  [op |-> name, direction |-> direction, moved |-> moved,
   terminated |-> isGameTerminated(World),
   tiles |-> (Size * Size) - Len(availableCells(grid)),
   sum |-> BoardSum(grid), score |-> score, bestScore |-> bestScore]

BusOp(name, event, cb, returned) ==
  [op |-> name, event |-> event, cb |-> cb, before |-> busEvents,
   returned |-> returned]

\* new EventBus()
NewEventBus ==
  /\ busEvents = NewEvents
  /\ unsubFns = {}
  /\ onceSerial = 0
  /\ calls = <<>>
  /\ lastBusOp = [op |-> "new", event |-> "", cb |-> "", before |-> NewEvents,
                  returned |-> TRUE]
  /\ busOps = 0

\* the page once it is loaded: the oxygen system is constructed after the
\* engine, and the first game:progression is published for it
Bootstrapped ==
  /\ NewListeners
  /\ oxygen = updateFromSum(NewOxygenSystem, getTileSum(grid).sum)

\* new GameManager(...): setup() on what the storage holds
Init ==
  /\ \E stored \in StoredStates \cup {Null} :
       \E w \in setup([grid |-> emptyGrid, score |-> 0, over |-> FALSE,
                       won |-> FALSE, keepPlaying |-> FALSE,
                       gameState |-> stored,
                       bestScore |-> IF stored = Null THEN 0 ELSE stored.score,
                       events |-> <<>>, fx |-> NewVisualEffects]) :
         /\ grid = w.grid
         /\ score = w.score
         /\ over = w.over
         /\ won = w.won
         /\ keepPlaying = w.keepPlaying
         /\ gameState = w.gameState
         /\ bestScore = w.bestScore
         /\ events = w.events
         /\ fx = w.fx
  /\ pendingWon = 0
  /\ lastOp = [op |-> "setup", direction |-> -1, moved |-> FALSE,
               terminated |-> FALSE]
  /\ ops = 0
  /\ NewEventBus
  /\ Bootstrapped

\* move(direction) when the game is terminated: it returns at once
MoveRejected(direction) ==
  /\ ops < MaxOps
  /\ isGameTerminated(World)
  /\ Becomes(World)
  /\ lastOp' = Op("move", direction, FALSE)
  /\ ops' = ops + 1
  /\ UNCHANGED pendingWon
  /\ UNCHANGED busVars
  /\ UNCHANGED subscriberVars

\* move(direction) otherwise; r and lt are the random draws of addRandomTile,
\* which is called only if a tile has moved
Move(direction) ==
  /\ ops < MaxOps
  /\ ~isGameTerminated(World)
  /\ ops' = ops + 1
  /\ UNCHANGED pendingWon
  /\ UNCHANGED busVars
  /\ sound' = IF sound.initialized THEN sound ELSE init(sound)
  /\ UNCHANGED <<timers, lastFxOp>>
  /\ \E m \in {moveTraversal(World, direction)} :
       /\ lastOp' = Op("move", direction, m.moved)
       /\ IF m.moved
          THEN \E r \in RandomSamples, lt \in BOOLEAN :
                 \E w \in {afterMoved(m, direction, r, lt)} : Heard(w)
          ELSE Heard(m.w)

KeepPlaying ==
  /\ ops < MaxOps
  /\ \E w \in {keepPlayingHandler(World)} : Becomes(w)
  /\ lastOp' = Op("keepPlaying", -1, FALSE)
  /\ ops' = ops + 1
  /\ UNCHANGED pendingWon
  /\ UNCHANGED busVars
  /\ UNCHANGED subscriberVars

Restart ==
  /\ ops < MaxOps
  /\ lastOp' = Op("restart", -1, FALSE)
  /\ ops' = ops + 1
  /\ UNCHANGED pendingWon
  /\ UNCHANGED busVars
  /\ UNCHANGED <<timers, lastFxOp, sound>>
  /\ \E w \in restart(World) :
       /\ Becomes(w)
       /\ oxygen' = onProgression(restartOxygen(oxygen), w.events, 1)

\* debugWin(): its setTimeout leaves one more callback pending
DebugWin ==
  /\ ops < MaxOps
  /\ \E w \in {debugWin(World)} : Heard(w)
  /\ pendingWon' = pendingWon + 1
  /\ lastOp' = Op("debugWin", -1, FALSE)
  /\ ops' = ops + 1
  /\ UNCHANGED busVars
  /\ UNCHANGED <<timers, lastFxOp, sound>>

DebugLose ==
  /\ ops < MaxOps
  /\ \E w \in {debugLose(World)} : Heard(w)
  /\ lastOp' = Op("debugLose", -1, FALSE)
  /\ ops' = ops + 1
  /\ UNCHANGED pendingWon
  /\ UNCHANGED busVars
  /\ UNCHANGED <<timers, lastFxOp, sound>>

\* the callback debugWin() scheduled: it publishes game:won
DebugWinTimeout ==
  /\ pendingWon > 0
  /\ \E w \in {emit(World, "game:won", NoData)} : Becomes(w)
  /\ pendingWon' = pendingWon - 1
  /\ lastOp' = Op("debugWinTimeout", -1, FALSE)
  /\ UNCHANGED ops
  /\ UNCHANGED busVars
  /\ UNCHANGED subscriberVars

\* the page is loaded again: a new GameManager is constructed on what the
\* storage holds, and the timers of the old page are gone
Reload ==
  /\ ops < MaxOps
  /\ pendingWon' = 0
  /\ lastOp' = Op("reload", -1, FALSE)
  /\ ops' = ops + 1
  /\ UNCHANGED busVars
  /\ sound' = NewSoundManager(sound.support)
  /\ UNCHANGED <<timers, lastFxOp>>
  /\ \E w \in setup([World EXCEPT !.fx = NewVisualEffects]) :
       /\ Becomes(w)
       /\ oxygen' = updateFromSum(NewOxygenSystem, getTileSum(w.grid).sum)

Next ==
  \/ \E direction \in Directions : MoveRejected(direction)
  \/ \E direction \in Directions : Move(direction)
  \/ KeepPlaying
  \/ Restart
  \/ DebugWin
  \/ DebugLose
  \/ DebugWinTimeout
  \/ Reload

Spec == Init /\ [][Next]_vars

(***************************************************************************)
(* The event bus on its own: its clients subscribe, unsubscribe and        *)
(* publish, from the moment the constructor of GameManager has created it  *)
(***************************************************************************)
\* the engine when its constructor creates the bus: setup() has not run
BusInit ==
  /\ grid = emptyGrid
  /\ score = 0
  /\ over = FALSE /\ won = FALSE /\ keepPlaying = FALSE
  /\ gameState = Null
  /\ bestScore = 0
  /\ events = <<>>
  /\ pendingWon = 0
  /\ lastOp = [op |-> "new", direction |-> -1, moved |-> FALSE,
               terminated |-> FALSE]
  /\ ops = 0
  /\ NewEventBus
  /\ NewUi

\* on(event, cb): the unsubscribe function it returns is kept
On(event, cb) ==
  /\ busOps < MaxBusOps
  /\ busEvents' = on(busEvents, event, Callback(cb))
  /\ unsubFns' = unsubFns \cup {[event |-> event, cb |-> cb]}
  /\ calls' = <<>>
  /\ lastBusOp' = BusOp("on", event, cb, TRUE)
  /\ busOps' = busOps + 1
  /\ UNCHANGED onceSerial
  /\ UNCHANGED gameVars
  /\ UNCHANGED uiVars

\* once(event, cb): on(event, wrappedCallback), a new function each time
Once(event, cb) ==
  /\ busOps < MaxBusOps
  /\ busEvents' = on(busEvents, event, Handler(cb, onceSerial + 1, event))
  /\ onceSerial' = onceSerial + 1
  /\ calls' = <<>>
  /\ lastBusOp' = BusOp("once", event, cb, TRUE)
  /\ busOps' = busOps + 1
  /\ UNCHANGED unsubFns
  /\ UNCHANGED gameVars
  /\ UNCHANGED uiVars

Off(event, cb) ==
  /\ busOps < MaxBusOps
  /\ busEvents' = off(busEvents, event, Callback(cb))
  /\ calls' = <<>>
  /\ lastBusOp' = BusOp("off", event, cb, TRUE)
  /\ busOps' = busOps + 1
  /\ UNCHANGED <<unsubFns, onceSerial>>
  /\ UNCHANGED gameVars
  /\ UNCHANGED uiVars

\* a call of a function that on() returned: self.off(event, callback)
Unsubscribe(fn) ==
  /\ busOps < MaxBusOps
  /\ busEvents' = off(busEvents, fn.event, Callback(fn.cb))
  /\ calls' = <<>>
  /\ lastBusOp' = BusOp("unsubscribe", fn.event, fn.cb, TRUE)
  /\ busOps' = busOps + 1
  /\ UNCHANGED <<unsubFns, onceSerial>>
  /\ UNCHANGED gameVars
  /\ UNCHANGED uiVars

\* emit(event, data), the calls of the handlers included
Emit(event) ==
  /\ busOps < MaxBusOps
  /\ \E p \in {busEmit(busEvents, event, Payload)} :
       /\ busEvents' = p.events
       /\ calls' = p.calls
       /\ lastBusOp' = BusOp("emit", event, "", ~p.aborted)
  /\ busOps' = busOps + 1
  /\ UNCHANGED <<unsubFns, onceSerial>>
  /\ UNCHANGED gameVars
  /\ UNCHANGED uiVars

Clear ==
  /\ busOps < MaxBusOps
  /\ busEvents' = clear(busEvents)
  /\ calls' = <<>>
  /\ lastBusOp' = BusOp("clear", "", "", TRUE)
  /\ busOps' = busOps + 1
  /\ UNCHANGED <<unsubFns, onceSerial>>
  /\ UNCHANGED gameVars
  /\ UNCHANGED uiVars

BusNext ==
  \/ \E s \in Subscribable : On(s[1], s[2])
  \/ \E s \in OnceSubscribable : Once(s[1], s[2])
  \/ \E s \in Subscribable : Off(s[1], s[2])
  \/ \E fn \in unsubFns : Unsubscribe(fn)
  \/ \E event \in Topics : Emit(event)
  \/ Clear

BusSpec == BusInit /\ [][BusNext]_vars


(***************************************************************************)
(* The visual effects on their own: the events of the engine reach the     *)
(* VisualEffectsManager in any order, between them frames are drawn and    *)
(* the callbacks of setTimeout and setInterval run                         *)
(***************************************************************************)
\* the values of the merges and the milestones that are published
MergeValues == {1024}
MilestoneValues == {2048}
\* the <<maxTile, sum>> of the boards actuate() reports, and of new boards
Progressions == {<<64, 300>>, <<2048, 4000>>}
FreshProgressions == {<<4, 8>>}
\* how many particles may have outlived their maxLife when a frame is drawn
ExpiredCounts == {0, 200}

Timer(kind, serial, index) ==
  [kind |-> kind, serial |-> serial, index |-> index, stale |-> FALSE]

\* the setInterval and the setTimeouts of triggerVictory
victoryTimers(serial) ==
  {Timer("transition", serial, 0), Timer("victoryMist", serial, 3)}
    \cup {Timer("victoryWave", serial, wv) : wv \in 0 .. 2}

\* the setTimeouts of triggerGameOver
gameOverTimers(serial) == {Timer("gameOverWave", serial, wv) : wv \in 0 .. 4}

\* before: the fields when the call began; stale: the callback that ran was
\* scheduled before the last restart; args: the arguments of the call (for a
\* frame, the number of particles it found past their maxLife)
\* the callbacks of one call run in the order of their delays; the interval
\* runs beside the timeouts
Chain(t) == IF t.kind = "transition" THEN "interval" ELSE "timeout"

CanFire(t) ==
  \A u \in timers :
    (u.serial = t.serial /\ Chain(u) = Chain(t)) => u.index >= t.index

FxOp(name, stale) ==
  [op |-> name, count |-> lastFxOp.count, restarts |-> lastFxOp.restarts,
   frames |-> lastFxOp.frames, before |-> fx, stale |-> stale, args |-> <<>>]

NoGame ==
  /\ grid = emptyGrid
  /\ score = 0
  /\ over = FALSE /\ won = FALSE /\ keepPlaying = FALSE
  /\ gameState = Null
  /\ bestScore = 0
  /\ events = <<>>
  /\ pendingWon = 0
  /\ lastOp = [op |-> "new", direction |-> -1, moved |-> FALSE,
               terminated |-> FALSE]
  /\ ops = 0

FxInit ==
  /\ NoGame
  /\ NewEventBus
  /\ NewUi

\* what every step of the visual effects leaves alone
FxFrame == UNCHANGED <<gameVars, busVars, oxygen, sound>>

\* an event of the engine is handled: one more call
FxEvent(name) ==
  /\ lastFxOp.count < MaxFxOps
  /\ lastFxOp' = [FxOp(name, FALSE) EXCEPT !.count = @ + 1]
  /\ FxFrame

\* game:move
OnGameMove(direction) ==
  /\ FxEvent("triggerMove")
  /\ fx' = triggerMove(fx, direction)
  /\ UNCHANGED timers

\* game:merge
OnGameMerge(value) ==
  /\ FxEvent("triggerMerge")
  /\ fx' = triggerMerge(fx, value)
  /\ UNCHANGED timers

\* game:milestone
OnGameMilestone(value) ==
  /\ FxEvent("triggerMilestone")
  /\ fx' = triggerMilestone(fx, value)
  /\ UNCHANGED timers

\* game:won
OnGameWon ==
  /\ FxEvent("triggerVictory")
  /\ fx' = triggerVictory(fx)
  /\ timers' = timers \cup victoryTimers(lastFxOp.count + 1)

\* game:over
OnGameOver ==
  /\ FxEvent("triggerGameOver")
  /\ fx' = triggerGameOver(fx)
  /\ timers' = timers \cup gameOverTimers(lastFxOp.count + 1)

\* actuate(): setGameProgress(boardState.maxTile, boardState.sum)
Actuated(maxTile, sum) ==
  /\ FxEvent("setGameProgress")
  /\ fx' = setGameProgress(fx, maxTile, sum)
  /\ UNCHANGED timers

\* restart(): resetEffects(), then setup() and its actuate() with the new
\* board; the timers go on
Restarted(maxTile, sum) ==
  /\ lastFxOp.restarts < MaxRestarts
  /\ lastFxOp' = [FxOp("resetEffects", FALSE) EXCEPT !.restarts = @ + 1]
  /\ FxFrame
  /\ fx' = setGameProgress(resetEffects(fx), maxTile, sum)
  /\ timers' = {[t EXCEPT !.stale = TRUE] : t \in timers}

\* debugWin(): game:merge with 2048, the setTimeout of game:won, actuate()
DebugWon(sum) ==
  /\ FxEvent("debugWin")
  /\ fx' = setGameProgress(triggerMerge(fx, 2048), 2048, sum)
  /\ timers' = timers \cup {Timer("debugWon", lastFxOp.count + 1, 0)}

\* requestAnimationFrame: loop()
Frame(expired) ==
  /\ lastFxOp.frames < MaxFrames
  /\ lastFxOp' = [FxOp("loop", FALSE) EXCEPT !.frames = @ + 1,
                                              !.args = <<expired>>]
  /\ fx' = loop(fx, expired)
  /\ UNCHANGED timers
  /\ FxFrame

\* a setTimeout callback runs
Timeout(t) ==
  /\ t.kind # "transition"
  /\ CanFire(t)
  /\ lastFxOp' = FxOp(t.kind, t.stale)
  /\ fx' = CASE t.kind = "victoryWave"  -> wave(fx, 50)
             [] t.kind = "victoryMist"  -> victoryMist(fx)
             [] t.kind = "gameOverWave" -> wave(fx, 80)
             [] t.kind = "debugWon"     -> triggerVictory(fx)
  /\ timers' = IF t.kind = "debugWon"
               THEN (timers \ {t}) \cup victoryTimers(0 - t.serial)
               ELSE timers \ {t}
  /\ FxFrame

\* the setInterval callback of triggerVictory runs: after transitionSteps
\* calls it clears the interval
Interval(t) ==
  /\ t.kind = "transition"
  /\ lastFxOp.frames < MaxFrames
  /\ lastFxOp' = [FxOp(t.kind, t.stale) EXCEPT !.frames = @ + 1]
  /\ fx' = transitionStep(fx, t.index + 1)
  /\ timers' = IF t.index + 1 >= 60
               THEN timers \ {t}
               ELSE (timers \ {t}) \cup {[t EXCEPT !.index = @ + 1]}
  /\ FxFrame

FxNext ==
  \/ \E direction \in Directions : OnGameMove(direction)
  \/ \E value \in MergeValues : OnGameMerge(value)
  \/ \E value \in MilestoneValues : OnGameMilestone(value)
  \/ OnGameWon
  \/ OnGameOver
  \/ \E p \in Progressions : Actuated(p[1], p[2])
  \/ \E p \in FreshProgressions : Restarted(p[1], p[2])
  \/ \E p \in Progressions : DebugWon(p[2])
  \/ \E expired \in ExpiredCounts : Frame(expired)
  \/ \E t \in timers : Timeout(t)
  \/ \E t \in timers : Interval(t)

FxSpec == FxInit /\ [][FxNext]_vars


(***************************************************************************)
(* The energy of the visual effects: a few events of the engine raise it,  *)
(* and frame after frame is drawn for as long as the page is shown         *)
(* (requestAnimationFrame at the head of loop).  The callbacks the events  *)
(* schedule and the particles that expire do not touch the energy; they    *)
(* are left to FxSpec.                                                     *)
(***************************************************************************)
\* requestAnimationFrame: loop(), the frames not being counted
EnergyFrame ==
  /\ lastFxOp' = [FxOp("loop", FALSE) EXCEPT !.args = <<0>>]
  /\ fx' = loop(fx, 0)
  /\ UNCHANGED timers
  /\ FxFrame

EnergyNext ==
  \/ \E direction \in Directions : OnGameMove(direction)
  \/ \E value \in MergeValues : OnGameMerge(value)
  \/ OnGameWon
  \/ OnGameOver
  \/ EnergyFrame

EnergySpec == FxInit /\ [][EnergyNext]_vars /\ WF_vars(EnergyFrame)


(***************************************************************************)
(* setGameProgress on its own: it is called with one board after another   *)
(***************************************************************************)
\* the highest tiles and the sums of the boards it is called with
ProgressTiles == {2, 256, 512, 2048, 4096}
ProgressSums ==
  {0, 2, 4, 8, 100, 198, 199, 200, 600, 998, 999, 1000, 2500, 3998, 4000,
   5000}

SetGameProgress(maxTile, sum) ==
  /\ lastFxOp' = [FxOp("setGameProgress", FALSE) EXCEPT !.args = <<maxTile, sum>>]
  /\ fx' = setGameProgress(fx, maxTile, sum)
  /\ UNCHANGED timers
  /\ FxFrame

ProgressNext ==
  \E maxTile \in ProgressTiles, sum \in ProgressSums : SetGameProgress(maxTile, sum)

ProgressSpec == FxInit /\ [][ProgressNext]_vars


(***************************************************************************)
(* The oxygen system on its own: it is updated with one sum after another  *)
(* and reset by a restart                                                  *)
(***************************************************************************)
\* the sums it is updated with
OxygenSums ==
  {20 * k : k \in 0 .. 150}
    \cup {4, 198, 199, 202, 998, 999, 1002, 2498, 2499, 2502, 4000, 6000}

OxygenFrame == UNCHANGED <<gameVars, busVars, fxVars, sound>>

UpdateFromSum(tileSum) ==
  /\ oxygen' = [updateFromSum(oxygen, tileSum) EXCEPT !.op = "updateFromSum",
                                                      !.tileSum = tileSum]
  /\ OxygenFrame

RestartOxygen ==
  /\ oxygen' = [restartOxygen(oxygen) EXCEPT !.op = "restart", !.tileSum = 0]
  /\ OxygenFrame

OxygenNext ==
  \/ \E tileSum \in OxygenSums : UpdateFromSum(tileSum)
  \/ RestartOxygen

OxygenSpec == FxInit /\ [][OxygenNext]_vars


(***************************************************************************)
(* The sound manager on its own: move inputs and the events it listens to, *)
(* on a host with any of the kinds of audio support                        *)
(***************************************************************************)
MaxSoundOps == 3

SoundInit ==
  /\ NoGame
  /\ NewEventBus
  /\ fx = NewVisualEffects
  /\ timers = {}
  /\ lastFxOp = [op |-> "new", count |-> 0, restarts |-> 0, frames |-> 0,
                 before |-> NewVisualEffects, stale |-> FALSE, args |-> <<>>]
  /\ oxygen = NewOxygenSystem
  /\ \E support \in AudioSupport : sound = NewSoundManager(support)

SoundFrame == UNCHANGED <<gameVars, busVars, fxVars, oxygen>>

\* move(direction) up to the lazy initialisation: nothing when the game is
\* terminated
SoundMove(terminated) ==
  /\ sound.count < MaxSoundOps
  /\ sound' = [( IF terminated \/ sound.initialized THEN sound ELSE init(sound) )
                 EXCEPT !.op = "move", !.count = @ + 1, !.moves = @ + 1,
                        !.played = FALSE, !.raised = FALSE]
  /\ SoundFrame

\* an event the sound manager subscribed to reaches its handler
SoundEvent(handler) ==
  /\ sound.count < MaxSoundOps
  /\ sound' = [play(sound, handler) EXCEPT !.op = handler, !.count = @ + 1]
  /\ SoundFrame

SoundNext ==
  \/ \E terminated \in BOOLEAN : SoundMove(terminated)
  \/ \E handler \in SoundHandlers : SoundEvent(handler)

SoundSpec == SoundInit /\ [][SoundNext]_vars


(***************************************************************************)
(* move() on its own: the engine is constructed on a snapshot whose rows   *)
(* are drawn from a few lines of tiles no merge has created yet (score 0), *)
(* and moves are made                                                      *)
(***************************************************************************)
\* the number of moves of one run
MaxLineOps == 1

\* the rows of the snapshots, leftmost cell first, 0 for an empty cell
Lines == {<<2, 2, 2, 0>>, <<2, 2, 2, 2>>, <<4, 2, 2, 0>>, <<0, 4, 0, 4>>}

LineStates ==
  {StoredState(rows, 0, FALSE, FALSE) : rows \in [1 .. Size -> Lines]}

\* new GameManager(...) on a storage that holds one of the snapshots
LineInit ==
  /\ \E stored \in LineStates :
       \E w \in setup([grid |-> emptyGrid, score |-> 0, over |-> FALSE,
                       won |-> FALSE, keepPlaying |-> FALSE,
                       gameState |-> stored, bestScore |-> 0,
                       events |-> <<>>, fx |-> NewVisualEffects]) :
         /\ grid = w.grid
         /\ score = w.score
         /\ over = w.over
         /\ won = w.won
         /\ keepPlaying = w.keepPlaying
         /\ gameState = w.gameState
         /\ bestScore = w.bestScore
         /\ events = w.events
         /\ fx = w.fx
  /\ pendingWon = 0
  /\ lastOp = [op |-> "setup", direction |-> -1, moved |-> FALSE,
               terminated |-> FALSE]
  /\ ops = 0
  /\ NewEventBus
  /\ Bootstrapped

LineMove(direction) ==
  /\ ops < MaxLineOps
  /\ Move(direction)

LineNext == \E direction \in Directions : LineMove(direction)

LineSpec == LineInit /\ [][LineNext]_vars


(***************************************************************************)
(* What the properties below speak of, stated without the engine's own     *)
(* operators                                                               *)
(***************************************************************************)
Positions == {Pos(x, y) : x \in Coords, y \in Coords}

\* the value in each cell, 0 for an empty cell
CellValues(cells) ==
  [p \in Positions |-> IF at(cells, p) = Null THEN 0 ELSE at(cells, p).value]

TilesOf(cells) == {at(cells, p) : p \in {q \in Positions : at(cells, q) # Null}}

\* the tiles a merge created since the merge sources were last cleared
MergedTiles(cells) == {t \in TilesOf(cells) : t.mergedFrom # <<>>}

RECURSIVE SumValues(_)
SumValues(tiles) ==
  IF tiles = {} THEN 0
  ELSE LET t == CHOOSE u \in tiles : TRUE
       IN  t.value + SumValues(tiles \ {t})

MaxValue(tiles) == CHOOSE v \in {t.value : t \in tiles} :
                     \A t \in tiles : t.value <= v

\* the cell next to p in a direction: 0 up, 1 right, 2 down, 3 left
Toward(p, direction) ==
  CASE direction = 0 -> Pos(p.x, p.y - 1)
    [] direction = 1 -> Pos(p.x + 1, p.y)
    [] direction = 2 -> Pos(p.x, p.y + 1)
    [] direction = 3 -> Pos(p.x - 1, p.y)

\* some tile can slide or merge in the direction
CanShift(cells, direction) ==
  \E p \in Positions :
    /\ at(cells, p) # Null
    /\ Toward(p, direction) \in Positions
    /\ \/ at(cells, Toward(p, direction)) = Null
       \/ at(cells, Toward(p, direction)).value = at(cells, p).value

BoardFull(cells) == \A p \in Positions : at(cells, p) # Null

AdjacentPair(cells) ==
  \E p \in Positions, direction \in {1, 2} :
    /\ at(cells, p) # Null
    /\ Toward(p, direction) \in Positions
    /\ at(cells, Toward(p, direction)) # Null
    /\ at(cells, Toward(p, direction)).value = at(cells, p).value

EventIndexes(name) == {i \in 1 .. Len(events) : events[i].name = name}

\* the last operation was a move of a game that was not terminated
AcceptedMove ==
  lastOp.op = "move" /\ ~lastOp.terminated

\* ... and it moved a tile
BoardChangingMove == AcceptedMove /\ lastOp.moved


(***************************************************************************)
(* Properties                                                              *)
(***************************************************************************)

\* C1: a move of a game that is not terminated, in a direction in which no
\* tile can slide or merge, leaves the cell values, the score, the flags, the
\* persisted snapshot and best score unchanged, adds no tile and publishes no
\* event at all.
C1_NoOpMoveChangesNothing ==
  [][ ( /\ lastOp'.op = "move"
        /\ ~(over \/ (won /\ ~keepPlaying))
        /\ ~CanShift(grid, lastOp'.direction) )
      => /\ CellValues(grid') = CellValues(grid)
         /\ score' = score
         /\ over' = over /\ won' = won /\ keepPlaying' = keepPlaying
         /\ gameState' = gameState /\ bestScore' = bestScore
         /\ events' = <<>> ]_vars

\* a move just found nothing to slide or merge
C1_Witness ==
  /\ AcceptedMove
  /\ TilesOf(grid) # {}
  /\ ~CanShift(grid, lastOp.direction)
  /\ events = <<>>

\* C2: after a move, every tile a merge of that move created has two sources
\* neither of which was itself created by a merge of that move.
C2_MergedAtMostOnce ==
  AcceptedMove =>
    \A t \in MergedTiles(grid) :
      /\ Len(t.mergedFrom) = 2
      /\ t.mergedFrom[1].mergedFrom = <<>>
      /\ t.mergedFrom[2].mergedFrom = <<>>

\* a move left a merged tile right behind an untouched tile of the same value
\* (the row [4,4,8] moved toward the 8), and an untouched tile right behind a
\* merged tile of the same value (the row [8,4,4] moved toward the 4s)
C2_Witness ==
  /\ BoardChangingMove
  /\ \E t \in MergedTiles(grid), u \in TilesOf(grid) :
       /\ u.mergedFrom = <<>> /\ u.value = t.value /\ t.value >= 8
       /\ Toward(Pos(t.x, t.y), lastOp.direction) = Pos(u.x, u.y)
  /\ \E t \in MergedTiles(grid), u \in TilesOf(grid) :
       /\ u.mergedFrom = <<>> /\ u.value = t.value /\ t.value >= 8
       /\ Toward(Pos(u.x, u.y), lastOp.direction) = Pos(t.x, t.y)

\* C3: every merge of a move turns two tiles of one value v into one tile of
\* value 2v at the cell both sources end at, the sources leave the grid (one
\* tile less per merge, one more for the new random tile), and the score grows
\* by the sum of the values of the merged tiles.
C3_MergeDoublesAndScores ==
  [][ ( lastOp'.op = "move" /\ ~lastOp'.terminated )
      => /\ \A t \in MergedTiles(grid') :
              /\ Len(t.mergedFrom) = 2
              /\ t.mergedFrom[1].value = t.mergedFrom[2].value
              /\ t.value = 2 * t.mergedFrom[1].value
              /\ t.value = t.mergedFrom[1].value + t.mergedFrom[2].value
              /\ \A i \in 1 .. 2 :
                   /\ t.mergedFrom[i].x = t.x /\ t.mergedFrom[i].y = t.y
                   /\ t.mergedFrom[i] \notin TilesOf(grid')
         /\ Cardinality(TilesOf(grid')) =
              Cardinality(TilesOf(grid)) - Cardinality(MergedTiles(grid'))
                + (IF lastOp'.moved THEN 1 ELSE 0)
         /\ score' = score + SumValues(MergedTiles(grid')) ]_vars

\* a move merged at least two pairs
C3_Witness ==
  /\ BoardChangingMove
  /\ Cardinality(MergedTiles(grid)) >= 2
  /\ score > 0

\* C4: after a move that changed the board, new tile included, over is true
\* exactly if the board is full and no two adjacent tiles share a value.
C4_OverIffNoMoveLeft ==
  BoardChangingMove =>
    (over <=> (BoardFull(grid) /\ ~AdjacentPair(grid)))

\* a move just ended the game
C4_Witness ==
  /\ BoardChangingMove
  /\ over
  /\ BoardFull(grid) /\ ~AdjacentPair(grid)


\* C5: in every reachable state over is true exactly if no legal move exists,
\* that is if the board is full without two adjacent equal tiles; the engine
\* is never in a state that is not over and in which no move can shift a tile.
C5_OverIffNoLegalMove ==
  /\ over <=> (BoardFull(grid) /\ ~AdjacentPair(grid))
  /\ ~over => \E direction \in Directions : CanShift(grid, direction)

\* C6: a move of a terminated game (over, or won without keepPlaying) changes
\* nothing: grid, score, flags, snapshot and best score stay, and no event is
\* published.
C6_TerminatedMoveRejected ==
  [][ ( lastOp'.op = "move" /\ (over \/ (won /\ ~keepPlaying)) )
      => /\ grid' = grid
         /\ score' = score
         /\ over' = over /\ won' = won /\ keepPlaying' = keepPlaying
         /\ gameState' = gameState /\ bestScore' = bestScore
         /\ events' = <<>> ]_vars

\* a move was just rejected because the game is won and was not continued
C6_Witness ==
  /\ lastOp.op = "move"
  /\ won /\ ~keepPlaying /\ ~over
  /\ events = <<>>

\* the place of an event in the order the specification gives
SpecRank(name) ==
  CASE name = "game:move"        -> 1
    [] name = "game:merge"       -> 2
    [] name = "game:milestone"   -> 3
    [] name = "game:won"         -> 4
    [] name = "game:over"        -> 5
    [] name = "game:progression" -> 6

\* the place of an event in the order move() publishes
MoveRank(name) ==
  CASE name = "game:milestone"   -> 1
    [] name = "game:won"         -> 1
    [] name = "game:over"        -> 2
    [] name = "game:move"        -> 3
    [] name = "game:merge"       -> 4
    [] name = "game:progression" -> 5

\* C7 as it is claimed: the events of a board-changing move come in the order
\* move, merge, milestone, won, over.
C7_SpecOrder ==
  BoardChangingMove =>
    \A i, j \in 1 .. Len(events) :
      i < j => SpecRank(events[i].name) <= SpecRank(events[j].name)

\* C7 as amended: the events of a board-changing move come in this order: per
\* merge, in traversal order, game:milestone (value >= 64) directly followed by
\* game:won (value 2048); then game:over if the game was just lost; then one
\* game:move with the direction; then game:merge if a merge occurred; then
\* game:progression.
C7_MoveOrder ==
  BoardChangingMove =>
    /\ \A i, j \in 1 .. Len(events) :
         i < j => MoveRank(events[i].name) <= MoveRank(events[j].name)
    /\ \A i \in EventIndexes("game:won") :
         /\ i > 1
         /\ events[i - 1].name = "game:milestone"
         /\ events[i - 1].data.value = 2048
    /\ Cardinality(EventIndexes("game:move")) = 1
    /\ \A i \in EventIndexes("game:move") :
         events[i].data.direction = lastOp.direction
    /\ Cardinality(EventIndexes("game:over")) = (IF over THEN 1 ELSE 0)
    /\ EventIndexes("game:progression") = {Len(events)}

\* one move published every kind of event
C7_Witness ==
  /\ BoardChangingMove
  /\ \A name \in {"game:milestone", "game:won", "game:over", "game:move",
                  "game:merge", "game:progression"} :
       EventIndexes(name) # {}

\* C8: a move with a merge publishes exactly one game:merge, carrying the
\* highest value a merge of that move created; a move without a merge
\* publishes none.
C8_OneMergeEventWithMax ==
  AcceptedMove =>
    IF lastOp.moved /\ MergedTiles(grid) # {}
    THEN /\ Cardinality(EventIndexes("game:merge")) = 1
         /\ \A i \in EventIndexes("game:merge") :
              events[i].data.value = MaxValue(MergedTiles(grid))
    ELSE EventIndexes("game:merge") = {}

\* a move merged pairs of different values, the highest of them not last
C8_Witness ==
  /\ BoardChangingMove
  /\ lastOp.direction = 1
  /\ \E t, u \in MergedTiles(grid) : t.value < u.value /\ t.x < u.x /\ t.y = u.y
  /\ Cardinality(EventIndexes("game:merge")) = 1

\* C9: a move publishes one game:milestone per merge whose value is at least
\* 64, carrying that value, and none for a merge below 64.
C9_MilestonePerBigMerge ==
  AcceptedMove =>
    \A v \in {t.value : t \in MergedTiles(grid)} \cup
             {events[i].data.value : i \in EventIndexes("game:milestone")} :
      Cardinality({i \in EventIndexes("game:milestone") :
                     events[i].data.value = v})
        = (IF v >= 64
           THEN Cardinality({t \in MergedTiles(grid) : t.value = v})
           ELSE 0)

\* a move merged to 64 exactly, to more than 64 and to less than 64
C9_Witness ==
  /\ BoardChangingMove
  /\ \E t \in MergedTiles(grid) : t.value = 64
  /\ \E t \in MergedTiles(grid) : t.value > 64
  /\ \E t \in MergedTiles(grid) : t.value < 64
  /\ Cardinality(EventIndexes("game:milestone")) >= 2

CountOf(evts, name) ==
  Cardinality({i \in 1 .. Len(evts) : evts[i].name = name})

\* C10: the game is won the first time only: a move publishes game:won once
\* if it turns won from false to true, and not at all otherwise; and won only
\* becomes true by a merge to 2048.
C10_WonFirstTimeOnly ==
  [][ lastOp'.op = "move"
      => /\ CountOf(events', "game:won") = (IF ~won /\ won' THEN 1 ELSE 0)
         /\ (~won /\ won') => \E t \in MergedTiles(grid') : t.value = 2048
    ]_vars


\* every tile but the one in the cell stands against the wall of the
\* direction or against another tile
Packed(cells, direction, cell) ==
  \A x \in Coords, y \in Coords :
    LET p == Pos(x, y)
        q == Toward(p, direction)
    IN  ( /\ p # cell
          /\ at(cells, p) # Null
          /\ q.x \in Coords /\ q.y \in Coords )
        => /\ q # cell
           /\ at(cells, q) # Null

\* C11: a move that changes the board adds exactly one tile, of value 2 or 4,
\* in a cell that the slide and the merges left empty: without the new tile
\* the board is the slid and merged one, its tiles packed toward the
\* direction and the sum of their values being the sum before the move, and
\* the number of tiles is the number before the move, minus the number of
\* merges, plus one. addRandomTile on a full board returns the board as it is.
C11_OneNewTile ==
  /\ BoardChangingMove
     => /\ BoardSum(grid) - lastOp.sum \in {2, 4}
        /\ \E cell \in Positions :
             /\ at(grid, cell) # Null
             /\ at(grid, cell).value = BoardSum(grid) - lastOp.sum
             /\ at(grid, cell).mergedFrom = <<>>
             /\ Pos(at(grid, cell).x, at(grid, cell).y) = cell
             /\ Packed(grid, lastOp.direction, cell)
        /\ Cardinality(TilesOf(grid))
             = lastOp.tiles - Cardinality(MergedTiles(grid)) + 1
  /\ BoardFull(grid)
     => \A r \in RandomSamples, lt \in BOOLEAN :
          addRandomTile(grid, r, lt) = grid

\* two tiles of value 2 in a row were merged: the merged 4 and the new tile
C11_Witness ==
  /\ BoardChangingMove
  /\ Cardinality(TilesOf(grid)) = 2
  /\ \E t \in MergedTiles(grid) : t.value = 4
  /\ score = 4


\* a snapshot that records exactly these cells, this score and these flags
IsSnapshotOf(state, cells, sc, o, w, k) ==
  /\ state # Null
  /\ state.grid.size = Size
  /\ \A p \in Positions :
       state.grid.cells[p.x + 1][p.y + 1]
         = (IF at(cells, p) = Null THEN Null
            ELSE [position |-> p, value |-> at(cells, p).value])
  /\ state.score = sc
  /\ state.over = o
  /\ state.won = w
  /\ state.keepPlaying = k

\* C12: after a move that changes the board the persisted snapshot is the
\* serialization of the state the move left (grid, score, over, won,
\* keepPlaying) if the game is not over, and there is no snapshot if it is
\* over; the best score is kept in both cases, raised to the score if the
\* score exceeds it.
C12_SnapshotAfterMove ==
  [][ ( lastOp'.op = "move" /\ lastOp'.moved )
      => /\ IF over'
            THEN gameState' = Null
            ELSE IsSnapshotOf(gameState', grid', score', over', won',
                              keepPlaying')
         /\ bestScore' = (IF bestScore < score' THEN score' ELSE bestScore)
    ]_vars

\* a move lost the game: the snapshot is gone, the best score is not
C12_Witness ==
  /\ BoardChangingMove
  /\ over
  /\ gameState = Null
  /\ bestScore > 0
  /\ bestScore = score


\* C13 as it is claimed: whenever the game is terminated (over, or won and
\* not continued) there is no persisted snapshot.
C13_NoSnapshotWhenTerminated ==
  (over \/ (won /\ ~keepPlaying)) => gameState = Null

\* C13 as amended: the snapshot is cleared when the game is over, and only
\* then: whenever over is true there is no snapshot, and whenever the game is
\* won, not continued and not over, the snapshot exists and records the won
\* state, so that reloading restores the won game.
C13_NoSnapshotWhenOver ==
  /\ over => gameState = Null
  /\ (won /\ ~keepPlaying /\ ~over)
       => IsSnapshotOf(gameState, grid, score, FALSE, TRUE, FALSE)

\* a move has just won the game, and the won game is persisted
C13_Witness ==
  /\ BoardChangingMove
  /\ won /\ ~keepPlaying /\ ~over
  /\ EventIndexes("game:won") # {}
  /\ gameState # Null
  /\ gameState.won


\* C14: round trip: when the persisted snapshot is the serialization of the
\* engine's state, a new engine set up on it has the same value in every
\* cell, every tile recording the cell that holds it, the same score and the
\* same over, won and keepPlaying, and no start tile is added.
C14_RoundTrip ==
  [][ ( lastOp'.op = "reload" /\ gameState = serialize(World) )
      => /\ CellValues(grid') = CellValues(grid)
         /\ \A p \in Positions :
              at(grid', p) # Null
                => Pos(at(grid', p).x, at(grid', p).y) = p
         /\ Cardinality(TilesOf(grid')) = Cardinality(TilesOf(grid))
         /\ score' = score
         /\ over' = over /\ won' = won /\ keepPlaying' = keepPlaying
    ]_vars

\* a game that a move changed, with room on its board, was loaded again
C14_Witness ==
  /\ lastOp.op = "reload"
  /\ gameState # Null
  /\ score > 0
  /\ ~BoardFull(grid)
  /\ Cardinality(TilesOf(grid)) > startTiles
  /\ bestScore > gameState.score - 1
  /\ IsSnapshotOf(gameState, grid, score, over, won, keepPlaying)


RECURSIVE IsPowerOfTwo(_)
IsPowerOfTwo(v) ==
  \/ v = 2
  \/ v > 2 /\ v % 2 = 0 /\ IsPowerOfTwo(v \div 2)

\* C15: in every reachable state every tile records the cell that holds it,
\* that cell lies within [0, Size) on both axes, no tile is held by two
\* cells, and every tile's value is a power of two that is at least 2.
C15_GridWellFormed ==
  /\ Len(grid) = Size
  /\ \A x \in 1 .. Size : Len(grid[x]) = Size
  /\ \A p \in Positions :
       at(grid, p) # Null
         => /\ at(grid, p).x = p.x /\ at(grid, p).y = p.y
            /\ at(grid, p).x \in 0 .. (Size - 1)
            /\ at(grid, p).y \in 0 .. (Size - 1)
            /\ IsPowerOfTwo(at(grid, p).value)
            /\ \A q \in Positions : at(grid, q) = at(grid, p) => q = p

\* a move slid tiles and merged some on a crowded board
C15_Witness ==
  /\ BoardChangingMove
  /\ MergedTiles(grid) # {}
  /\ Cardinality(TilesOf(grid)) >= 10
  /\ \E t \in TilesOf(grid) : t.value >= 512


\* C16: the engine follows Playing -> Won -> Playing(keepPlaying) and
\* Playing -> GameOver. Within one engine (a restart or a newly constructed
\* engine apart) over and won stay true once they are true; a move of a game
\* that is won and not continued, or that is over whatever keepPlaying is,
\* changes nothing; keepPlaying sets keepPlaying and nothing else, and from
\* then on, as in Playing, a move that can shift a tile changes the board;
\* restart leads to Playing.
C16_StateMachine ==
  [][ /\ lastOp'.op \notin {"restart", "reload"}
         => (over => over') /\ (won => won')
      /\ ( lastOp'.op = "move" /\ (over \/ (won /\ ~keepPlaying)) )
         => /\ grid' = grid /\ score' = score
            /\ over' = over /\ won' = won /\ keepPlaying' = keepPlaying
      /\ lastOp'.op = "keepPlaying"
         => /\ keepPlaying'
            /\ grid' = grid /\ score' = score
            /\ over' = over /\ won' = won
      /\ ( /\ lastOp'.op = "move"
           /\ ~over /\ (~won \/ keepPlaying)
           /\ CanShift(grid, lastOp'.direction) )
         => /\ lastOp'.moved
            /\ CellValues(grid') # CellValues(grid)
      /\ lastOp'.op = "restart"
         => ~over' /\ ~won' /\ ~keepPlaying'
    ]_vars

\* a game that was won before has been continued, and a move of it was
\* accepted
C16_Witness ==
  /\ BoardChangingMove
  /\ won /\ keepPlaying /\ ~over
  /\ EventIndexes("game:won") = {}
  /\ \E t \in TilesOf(grid) : t.value = 2048 /\ t.mergedFrom = <<>>
  /\ \E t \in TilesOf(grid) : t.value = 512
  /\ ops = 2


(***************************************************************************)
(* Properties of the event bus                                             *)
(***************************************************************************)
\* the handlers the last emit called, in the order of the calls
CalledHandlers == [i \in 1 .. Len(calls) |-> calls[i].handler]

\* the list of the published event when the last operation began
ListAtStart == lastBusOp.before[lastBusOp.event]

\* C17: emit(event, data) calls every handler that is subscribed to the event
\* when emit is called, once each, in subscription order and with the data,
\* and no other handler; with no subscriber it does nothing.
C17_EmitCallsEverySubscriber ==
  lastBusOp.op = "emit" =>
    /\ Len(calls) = Len(ListAtStart)
    /\ \A i \in 1 .. Len(calls) :
         /\ calls[i].handler = ListAtStart[i]
         /\ calls[i].data = Payload
    /\ ListAtStart = <<>> => busEvents = lastBusOp.before

\* C18: the list of subscribers is a stable snapshot per publish: when a
\* handler subscribes or unsubscribes a handler of the event during emit, the
\* handlers called in that pass are still exactly those of the list as it was
\* when emit began, once each.
C18_StableSnapshot ==
  ( /\ lastBusOp.op = "emit"
    /\ \E i \in 1 .. Len(calls) :
         calls[i].after[lastBusOp.event] # calls[i].before[lastBusOp.event] )
  => CalledHandlers = ListAtStart

\* C19: a handler that throws during emit is caught: emit returns to the
\* publisher, the handler that threw leaves the lists as they were, the pass
\* goes on with the next index of the list, and when no handler of the pass
\* changes a list, every handler of the event is called in order.
C19_ThrowIsCaught ==
  lastBusOp.op = "emit" =>
    /\ lastBusOp.returned
    /\ \A i \in 1 .. Len(calls) :
         calls[i].threw =>
           /\ calls[i].after = calls[i].before
           /\ ( /\ calls[i].index < Len(ListAtStart)
                /\ calls[i].index < Len(calls[i].after[lastBusOp.event]) )
              => /\ i < Len(calls)
                 /\ calls[i + 1].index = calls[i].index + 1
                 /\ calls[i + 1].handler
                      = calls[i].after[lastBusOp.event][calls[i].index + 1]
    /\ (\A i \in 1 .. Len(calls) : calls[i].after = calls[i].before)
         => /\ CalledHandlers = ListAtStart
            /\ busEvents = lastBusOp.before

\* a handler threw and the handlers after it were called
C19_Witness ==
  /\ lastBusOp.op = "emit"
  /\ Len(calls) = 3
  /\ calls[1].threw
  /\ ~calls[2].threw
  /\ calls[3].handler = Callback("plain")
  /\ lastBusOp.returned

RECURSIVE Without(_, _)
Without(list, handler) ==
  IF list = <<>> THEN <<>>
  ELSE IF Head(list) = handler THEN Without(Tail(list), handler)
  ELSE <<Head(list)>> \o Without(Tail(list), handler)

\* C20: a call of the function that on(event, cb) returned removes one
\* subscription of cb to the event and leaves the other subscriptions in
\* their order; a second call of it changes nothing, and neither does off for
\* a handler that is not subscribed to the event.
C20_UnsubscribeOnce ==
  [][ /\ lastBusOp'.op = "unsubscribe"
         => /\ Without(busEvents'[lastBusOp'.event], Callback(lastBusOp'.cb))
                 = Without(busEvents[lastBusOp'.event], Callback(lastBusOp'.cb))
            /\ \A event \in Topics \ {lastBusOp'.event} :
                 busEvents'[event] = busEvents[event]
            /\ Len(busEvents'[lastBusOp'.event])
                 >= Len(busEvents[lastBusOp'.event]) - 1
            /\ ( /\ lastBusOp.op = "unsubscribe"
                 /\ lastBusOp.event = lastBusOp'.event
                 /\ lastBusOp.cb = lastBusOp'.cb )
               => busEvents' = busEvents
      /\ ( /\ lastBusOp'.op = "off"
           /\ indexOf(busEvents[lastBusOp'.event], Callback(lastBusOp'.cb)) = 0 )
         => busEvents' = busEvents
    ]_vars

\* C21: a handler registered with once(event, cb) is called by the first emit
\* of the event after its registration and is removed after that call, so
\* that no later emit calls it, whether cb throws or not: after an emit every
\* wrappedCallback the list held when emit began has been called once, and
\* none that was called is still subscribed.
C21_OnceIsCalledOnce ==
  lastBusOp.op = "emit" =>
    /\ \A k \in 1 .. Len(ListAtStart) :
         ListAtStart[k].serial > 0
           => Cardinality({i \in 1 .. Len(calls) :
                             calls[i].handler = ListAtStart[k]}) = 1
    /\ \A i \in 1 .. Len(calls) :
         calls[i].handler.serial > 0
           => \A k \in 1 .. Len(busEvents[lastBusOp.event]) :
                busEvents[lastBusOp.event][k] # calls[i].handler

(***************************************************************************)
(* Properties of the visual effects                                        *)
(***************************************************************************)
\* C22: in every reachable state there are at most maxParticles particles:
\* the burst of a merge, the ring of a milestone, the waves and the mist of a
\* victory and the waves of a game over add at most the free slots, however
\* the events, the deferred callbacks and the frames interleave.
C22_AtMostMaxParticles ==
  fx.particles <= maxParticles

\* C23: there are never fewer than baseParticles particles: a frame removes
\* only particles that have outlived their maxLife, and only while there are
\* more than baseParticles, and resetEffects leaves exactly baseParticles.
C23_AtLeastBaseParticles ==
  /\ fx.particles >= baseParticles
  /\ lastFxOp.op = "loop"
       => /\ fx.particles <= lastFxOp.before.particles
          /\ lastFxOp.before.particles - fx.particles <= lastFxOp.args[1]
          /\ fx.particles < lastFxOp.before.particles
               => lastFxOp.before.particles > baseParticles
  /\ lastFxOp.op = "resetEffects" => fx.particles = baseParticles

\* a frame found more expired particles than it could remove
C23_Witness ==
  /\ lastFxOp.op = "loop"
  /\ lastFxOp.before.particles > baseParticles
  /\ fx.particles = baseParticles
  /\ lastFxOp.args[1] > lastFxOp.before.particles - baseParticles

\* C24: a restart neutralizes the deferred effects in flight: a callback that
\* was scheduled before the restart and runs after it (a wave of particles of
\* a game over or a victory, the mist and the colour transition of a victory,
\* the delayed game:won of debugWin) leaves the new game as it is: baseColor
\* is still the colour of the new game's progress, the particles are as many
\* as before, and energy, flashIntensity and gameOverShake are unchanged.
C24_ResetNeutralizesTimers ==
  lastFxOp.stale
    => /\ fx.baseColor = lastFxOp.before.baseColor
       /\ fx.particles = lastFxOp.before.particles
       /\ fx.energy = lastFxOp.before.energy
       /\ fx.flashIntensity = lastFxOp.before.flashIntensity
       /\ fx.gameOverShake = lastFxOp.before.gameOverShake

\* the phase band of a sum: below 200, from 200 and below 1000, from 1000
Band(sum) == IF sum < 200 THEN 0 ELSE IF sum < 1000 THEN 1 ELSE 2

\* progressFactor after a call of setGameProgress lies in [0, 1], stays at or
\* below earlyGameCap and midGameCap in the early and the mid band while the
\* highest tile is below 512, and for the same highest tile does not fall
\* from one call to the next when the sum, at least lowest, does not fall
\* and stays in its band
ProgressIsMonotonicFrom(lowest) ==
      lastFxOp'.op = "setGameProgress"
        => /\ fx'.progressFactor >= 0
           /\ fx'.progressFactor <= One
           /\ ( lastFxOp'.args[1] < 512 /\ Band(lastFxOp'.args[2]) = 0 )
                => fx'.progressFactor <= earlyGameCap
           /\ ( lastFxOp'.args[1] < 512 /\ Band(lastFxOp'.args[2]) = 1 )
                => fx'.progressFactor <= midGameCap
           /\ ( /\ lastFxOp.op = "setGameProgress"
                /\ lastFxOp.args[1] = lastFxOp'.args[1]
                /\ lastFxOp.args[2] >= lowest
                /\ lastFxOp.args[2] <= lastFxOp'.args[2]
                /\ Band(lastFxOp.args[2]) = Band(lastFxOp'.args[2]) )
                => fx.progressFactor <= fx'.progressFactor

LevelOf(tileSum) ==
  IF tileSum >= 2500 THEN 0
  ELSE IF tileSum >= 1000 THEN 1
  ELSE IF tileSum >= 200 THEN 2
  ELSE 3

\* C26: the level updateFromSum computes depends on tileSum alone, by the
\* thresholds 200 / 1000 / 2500 (stable below 200, medium from 200 and below
\* 1000, low from 1000 and below 2500, critical from 2500), and a higher
\* tileSum never yields a higher level than a lower one did.
C26_LevelFromSum ==
  [][ oxygen'.op = "updateFromSum"
        => /\ oxygen'.currentLevel = LevelOf(oxygen'.tileSum)
           /\ ( oxygen.op = "updateFromSum" /\ oxygen.tileSum <= oxygen'.tileSum )
                => oxygen'.currentLevel <= oxygen.currentLevel
           /\ ( oxygen.op = "updateFromSum" /\ oxygen.tileSum = oxygen'.tileSum )
                => oxygen'.currentLevel = oxygen.currentLevel
    ]_vars

\* the sum reached 1000 while the indicator still shows the hours and the
\* medium level of the update before: the level is the one of the sum
C26_Witness ==
  /\ oxygen.op = "updateFromSum"
  /\ oxygen.tileSum = 1000
  /\ oxygen.currentLevel = 1
  /\ oxygen.shownLevel = 2
  /\ oxygen.alert = 1

\* C27: initialized is false before the first move input and on a host
\* without an AudioContext or whose AudioContext cannot be created; while it
\* is false no handler runs its body or raises an error; once it is true,
\* init changes nothing and a single AudioContext is in use.
C27_LazyFailSafeAudio ==
  /\ sound.moves = 0 => ~sound.initialized
  /\ sound.support \in {"unsupported", "throws"} => ~sound.initialized
  /\ ( sound.op \in SoundHandlers /\ ~sound.initialized )
       => ( ~sound.played /\ ~sound.raised )
  /\ sound.initialized
       => ( init(sound) = sound /\ sound.audioCtx /\ sound.contexts = 1 )

\* a handler was called after a move input on a host whose AudioContext
\* cannot be created
C27_Witness ==
  /\ sound.support = "throws"
  /\ sound.moves > 0
  /\ sound.op \in SoundHandlers
  /\ ~sound.initialized
  /\ ~sound.played

\* what C28 says of debugLose and, terminated apart, of debugWin
DebugCheatsPublish ==
  /\ lastOp.op = "debugLose"
       => /\ over
          /\ \A p \in Positions : at(grid, p) # Null
          /\ ~movesAvailable(grid)
          /\ CountOf(events, "game:over") = 1
          /\ gameState = Null
  /\ lastOp.op = "debugWin"
       => /\ won
          /\ \E p \in Positions : at(grid, p) # Null /\ at(grid, p).value = 2048
          /\ score = lastOp.score + 2048
          /\ ( CountOf(events, "game:won") = 1 \/ pendingWon > 0 )

\* C28 as it is stated: after debugLose, from any state, over is true, the
\* board is full with no two adjacent equal tiles, game:over was published
\* and the snapshot is cleared; after debugWin, from any state, won is true,
\* the board holds a 2048 tile, the score grew by 2048, the game is
\* terminated, and game:won is published, by debugWin or by the callback it
\* left pending.
C28_DebugCheatsAreTerminal ==
  /\ DebugCheatsPublish
  /\ lastOp.op = "debugWin" => isGameTerminated(World)

\* C28: the same, but after debugWin the game is terminated unless
\* keepPlaying was true already: then it goes on, if it is not over.
\* debugWin itself publishes game:merge with the value 2048; game:won is
\* published by the callback it leaves pending.
C28_DebugCheats ==
  /\ DebugCheatsPublish
  /\ lastOp.op = "debugWin"
       => /\ isGameTerminated(World) <=> ( over \/ ~keepPlaying )
          /\ CountOf(events, "game:merge") = 1
          /\ CountOf(events, "game:won") = 0
          /\ pendingWon > 0

\* debugWin on a game that is played on after a win: it is not terminated
C28_Witness ==
  /\ lastOp.op = "debugWin"
  /\ ~lastOp.terminated
  /\ won /\ keepPlaying
  /\ ~isGameTerminated(World)
  /\ pendingWon = 1

\* C29: the best score is at least the score, and no operation lowers it:
\* after each it is the higher of the best score before and the score, be the
\* operation a move, a move that ends the game and clears the snapshot, a
\* restart, a debug cheat or a reload of the page.
C29_BestScoreSurvives ==
  /\ bestScore >= score
  /\ lastOp.op \notin {"setup", "new"}
       => /\ bestScore >= lastOp.bestScore
          /\ bestScore = Max(lastOp.bestScore, score)

\* a restart of a game that was over: the snapshot had been cleared, the
\* score is 0 again and the best score is still there
C29_Witness ==
  /\ lastOp.op = "restart"
  /\ lastOp.terminated
  /\ lastOp.score > 0
  /\ score = 0
  /\ bestScore = lastOp.bestScore
  /\ bestScore >= lastOp.score

\* the last operation changed the board and called actuate(): a move that
\* moved a tile, a restart or a debug cheat
BoardChanged ==
  BoardChangingMove \/ lastOp.op \in {"restart", "debugWin", "debugLose"}

\* C30: a move that changes the board (whether it ends the game or not), a
\* restart and a debug cheat each publish exactly one game:progression, whose
\* sum and maxTile are the sum and the maximum of the values of the tiles on
\* the board, and the progressFactor (and the baseColor) of the visual effects
\* are the ones setGameProgress computes from those two values.
C30_ProgressionPerBoardChange ==
  BoardChanged =>
    /\ Cardinality(EventIndexes("game:progression")) = 1
    /\ \A i \in EventIndexes("game:progression") :
         /\ events[i].data.sum = BoardSum(grid)
         /\ events[i].data.maxTile = MaxValue(TilesOf(grid))
         /\ fx.progressFactor
              = progressOf(events[i].data.maxTile, events[i].data.sum)
         /\ fx.baseColor = colorOf(fx.progressFactor)

\* a move that ended the game: its game:progression carries the sum of the
\* full board, and progressFactor went up with it
C30_Witness ==
  /\ BoardChangingMove
  /\ over
  /\ Cardinality(EventIndexes("game:progression")) = 1
  /\ SumValues(TilesOf(grid)) > lastOp.sum
  /\ fx.progressFactor = progressOf(MaxValue(TilesOf(grid)), SumValues(TilesOf(grid)))
  /\ fx.progressFactor > progressOf(MaxValue(TilesOf(grid)), lastOp.sum)

\* the i-th cell of line k counted from the wall of the direction: for left
\* and right the lines are the rows, for up and down the columns
LineCell(direction, k, i) ==
  CASE direction = 0 -> Pos(k - 1, i - 1)
    [] direction = 1 -> Pos(Size - i, k - 1)
    [] direction = 2 -> Pos(k - 1, Size - i)
    [] direction = 3 -> Pos(i - 1, k - 1)

\* the values of line k from the wall on, 0 for an empty cell and for the
\* cell skip
LineOf(cells, direction, k, skip) ==
  [i \in 1 .. Size |->
     LET p == LineCell(direction, k, i)
     IN  IF p = skip \/ at(cells, p) = Null THEN 0 ELSE at(cells, p).value]

\* slide to the wall: the values in their order, then the empty cells
Slide(line) ==
  LET values == SelectSeq(line, LAMBDA v : v # 0)
  IN  [i \in 1 .. Len(line) |-> IF i <= Len(values) THEN values[i] ELSE 0]

\* merge adjacent equal pairs once, starting at the wall (index i)
RECURSIVE MergePairs(_, _)
MergePairs(line, i) ==
  IF i >= Len(line) THEN line
  ELSE IF line[i] # 0 /\ line[i] = line[i + 1]
  THEN MergePairs([line EXCEPT ![i] = 2 * line[i], ![i + 1] = 0], i + 2)
  ELSE MergePairs(line, i + 1)

\* slide to the wall, merge adjacent equal pairs once starting at the wall,
\* slide again
Reference(line) == Slide(MergePairs(Slide(line), 1))

NoCell == Pos(-1, -1)

\* C31: for every direction and every line of the board, the line a move
\* leaves, the new random tile apart, is the reference of the line it found:
\* slid to the wall of the direction, adjacent equal pairs merged once from
\* the wall on, slid again; no empty cell lies between a tile and the wall.
C31_LinesFollowReference ==
  [][ ( lastOp'.op = "move" /\ ~lastOp'.terminated )
      => \E skip \in (IF lastOp'.moved
                      THEN {p \in Positions :
                              /\ at(grid', p) # Null
                              /\ at(grid', p).mergedFrom = <<>>
                              /\ at(grid', p).value \in {2, 4}}
                      ELSE {NoCell}) :
           \A k \in 1 .. Size :
             /\ LineOf(grid', lastOp'.direction, k, skip)
                  = Reference(LineOf(grid, lastOp'.direction, k, NoCell))
             /\ \A i \in 1 .. (Size - 1) :
                  LineOf(grid', lastOp'.direction, k, skip)[i] = 0
                    => LineOf(grid', lastOp'.direction, k, skip)[i + 1] = 0
    ]_vars

\* a move to the left of a board on which no merge had happened left the row
\* [4, 2, _, _] of [2, 2, 2, _] and the row [4, 4, _, _] of [2, 2, 2, 2], and
\* the new tile in a third row
C31_Witness ==
  /\ BoardChangingMove
  /\ lastOp.direction = 3
  /\ lastOp.tiles >= 10
  /\ \E k \in 1 .. Size :
       /\ LineOf(grid, 3, k, NoCell) = <<4, 2, 0, 0>>
       /\ at(grid, Pos(0, k - 1)).mergedFrom # <<>>
  /\ \E k \in 1 .. Size :
       /\ LineOf(grid, 3, k, NoCell) = <<4, 4, 0, 0>>
       /\ at(grid, Pos(0, k - 1)).mergedFrom # <<>>
       /\ at(grid, Pos(1, k - 1)).mergedFrom # <<>>
  /\ \E k \in 1 .. Size :
       /\ LineOf(grid, 3, k, NoCell)[2] # 0
       /\ LineOf(grid, 3, k, NoCell)[3] # 0
       /\ at(grid, Pos(2, k - 1)).mergedFrom = <<>>
       /\ at(grid, Pos(1, k - 1)).mergedFrom = <<>>

\* C32: after every accepted move the tiles that carry merge sources are
\* exactly the tiles a merge of that move created: there are as many of them
\* as tiles the move consumed (none if nothing moved), each has two sources of
\* one value, half its own, that carry no sources themselves and have left
\* the grid, and their values add up to what the move added to the score; no
\* tile carries sources of an earlier move.
C32_MergeSourcesOfThisMove ==
  AcceptedMove =>
    /\ Cardinality(MergedTiles(grid))
         = lastOp.tiles + (IF lastOp.moved THEN 1 ELSE 0)
             - Cardinality(TilesOf(grid))
    /\ ~lastOp.moved => MergedTiles(grid) = {}
    /\ SumValues(MergedTiles(grid)) = score - lastOp.score
    /\ \A t \in MergedTiles(grid) :
         /\ Len(t.mergedFrom) = 2
         /\ t.mergedFrom[1].value = t.mergedFrom[2].value
         /\ t.value = 2 * t.mergedFrom[1].value
         /\ \A i \in 1 .. 2 :
              /\ t.mergedFrom[i].mergedFrom = <<>>
              /\ t.mergedFrom[i] \notin TilesOf(grid)

\* the second move of a new game merged nothing, and the 4 the first move
\* had merged of the two start tiles carries no sources any more
C32_Witness ==
  /\ BoardChangingMove
  /\ ops = 2
  /\ score = 4
  /\ lastOp.score = 4
  /\ lastOp.tiles = 2
  /\ \E t \in TilesOf(grid) : t.value = 4 /\ t.mergedFrom = <<>>
  /\ MergedTiles(grid) = {}

\* C33: an update that lowers the level (the level of the new sum is below
\* the level before the update) emits one oxygen:alert with the new level,
\* and an update that leaves the level as it was emits none.
C33_AlertOnEveryDrop ==
  [][ oxygen'.op = "updateFromSum"
        => oxygen'.alert = (IF LevelOf(oxygen'.tileSum) < oxygen.currentLevel
                            THEN LevelOf(oxygen'.tileSum) ELSE -1) ]_vars

\* what a frame takes off the energy, in units of 10^-3
EnergyStep == 2

\* C34: the energy is never negative; a frame lowers it by EnergyStep, or to
\* 0 if less is left; and once the events of the engine have ceased, it
\* reaches 0 after finitely many frames and stays 0.
C34_EnergyDecaysToZero ==
  /\ [](fx.energy >= 0)
  /\ [](lastFxOp.op = "loop"
         => /\ fx.energy = Max(0, lastFxOp.before.energy - EnergyStep)
            /\ fx.energy <= lastFxOp.before.energy)
  /\ <>[](fx.energy = 0)

\* a frame found less energy than a step and left none
C34_Witness ==
  /\ lastFxOp.op = "loop"
  /\ lastFxOp.count > 0
  /\ lastFxOp.before.energy = 1
  /\ fx.energy = 0

MovesRaiseTheSum ==
  /\ oxygen.currentLevel = LevelOf(BoardSum(grid))
  /\ BoardChangingMove
       => /\ BoardSum(grid) > lastOp.sum
          /\ \E t \in TilesOf(grid) :
               /\ t.mergedFrom = <<>>
               /\ t.value \in {2, 4}
               /\ BoardSum(grid) - t.value = lastOp.sum
          /\ \A t \in MergedTiles(grid) :
               t.value = t.mergedFrom[1].value + t.mergedFrom[2].value
  /\ ( AcceptedMove /\ ~lastOp.moved )
       => BoardSum(grid) = lastOp.sum
  /\ lastOp.op = "move"
       => /\ score >= lastOp.score
          /\ oxygen.currentLevel <= LevelOf(lastOp.sum)

\* C36 as it is stated: ... and the oxygen level never rises between
\* restarts: no operation of one game but a restart leaves a higher level
\* than it found.
C36_LevelNeverRises ==
  /\ MovesRaiseTheSum
  /\ lastOp.op \in {"move", "keepPlaying", "debugWin", "debugLose",
                    "debugWinTimeout"}
       => oxygen.currentLevel <= LevelOf(lastOp.sum)

\* C36: the same, the oxygen level not rising over the moves of a game; a
\* debug cheat replaces tiles and may lower the sum: after debugLose the
\* sum is 1020 and the level is low, whatever they were.
C36_SumGrowsByNewTile ==
  /\ MovesRaiseTheSum
  /\ lastOp.op = "debugLose"
       => BoardSum(grid) = 1020 /\ oxygen.currentLevel = 1
  /\ lastOp.op = "keepPlaying"
       => oxygen.currentLevel <= LevelOf(lastOp.sum)

\* a move merged two tiles and the new tile took the sum from 998 to 1000 or
\* above: the level fell from medium to low
C36_Witness ==
  /\ BoardChangingMove
  /\ MergedTiles(grid) # {}
  /\ lastOp.sum = 998
  /\ score > lastOp.score
  /\ BoardSum(grid) >= 1000
  /\ oxygen.currentLevel = 1

\* C37: whenever a persisted snapshot exists after a move, keepPlaying, a
\* restart, debugWin or debugLose, it is the serialization of the engine's
\* state: its grid, score, over, won and keepPlaying.
C37_SnapshotIsCurrentState ==
  ( /\ lastOp.op \in {"move", "keepPlaying", "restart", "debugWin",
                       "debugLose"}
    /\ gameState # Null )
    => /\ IsSnapshotOf(gameState, grid, score, over, won, keepPlaying)
       /\ gameState = serialize(World)

\* C38: keepPlaying is true only where won is true, and a move that merges
\* the 2048 tile and emits game:won leaves the game terminated, whatever
\* keepPlaying inputs came before.
C38_KeepPlayingOnlyWhenWon ==
  /\ keepPlaying => won
  /\ ( /\ BoardChangingMove
       /\ EventIndexes("game:won") # {} )
       => won /\ (over \/ ~keepPlaying)

\* C39: after every update from a game:progression the level the indicator
\* shows (the level of the last updateDisplay call) is the level of the
\* latest sum, and it is never above the current level.
C39_ShownLevelIsCurrent ==
  oxygen.op = "updateFromSum"
    => /\ oxygen.shownLevel = LevelOf(oxygen.tileSum)
       /\ oxygen.shownLevel <= oxygen.currentLevel

====
